---- MODULE Spec2Model ----
(***************************************************************************)
(* Verification model of the lagertha-vm runtime core: the method area     *)
(* (class loading and linking), class initialization and the interpreter's *)
(* frame stack with exception propagation.                                 *)
(*                                                                         *)
(* Symbols are strings.  A MethodKey / FieldKey is the pair <<name, desc>>.*)
(* Ids are 1-based indices into the vectors of the method area; 0 stands   *)
(* for Option::None.  HashMaps are functions with a finite domain.         *)
(***************************************************************************)
EXTENDS Integers, Sequences, FiniteSets, TLC

VARIABLES
    classpath,   \* class bytes the bootstrap class loader can find (name -> class file)
    ma,          \* the MethodArea
    heap,        \* the Heap: bump pointer and object headers
    frames,      \* per thread: JavaThreadState.stack, the frame stack
    ctl,         \* per thread: the activations of the interpreter's host-level recursion
    result,      \* per thread: outcome of the last top-level invocation
    calls,       \* number of top-level driver calls made so far
    ev,          \* observation of the last step (what the step just did)
    hist         \* observations accumulated over the run

vars == <<classpath, ma, heap, frames, ctl, result, calls, ev, hist>>

(***************************************************************************)
(* Bounds                                                                  *)
(***************************************************************************)
MaxCalls == 2          \* top-level invocations per run
MaxLoads == 3          \* class-load requests per run of the loading driver
HeapCapacity == 128    \* bytes of heap (Heap::new takes megabytes)
MaxFrames == 5         \* capacity of a thread's frame stack

(***************************************************************************)
(* Program constants                                                       *)
(***************************************************************************)
Loaded == 0
Linked == 1
Initializing == 2
Initialized == 3
ObjectHeaderSize == 16
U16 == 65536

\* The observation of a step: what the step did, for the properties to read.
NoEv ==
    [type |-> "none", name |-> "", cls |-> 0, id |-> 0, ok |-> FALSE,
     again |-> FALSE, after_fail |-> FALSE, seen |-> 0, ref |-> 0, pc |-> 0,
     stack |-> <<>>, native |-> FALSE, n |-> 0, thread |-> 0, inp |-> <<>>]

(***************************************************************************)
(* Generic helpers for maps and ordered iteration                          *)
(***************************************************************************)
EmptyMap == <<>>

MapPut(m, k, v) == (k :> v) @@ m

\* A `let` binding evaluated once: With(e, LAMBDA r : body) is body with r
\* bound to the value of e.
With(v, F(_)) == CHOOSE r \in {F(a) : a \in {v}} : TRUE

\* Iteration order of a HashSet<ClassId>: unspecified in the program; the
\* oracle ord picks ascending or descending id order.
RECURSIVE SetToSeq(_, _)
SetToSeq(S, ord) ==
    IF S = {} THEN <<>>
    ELSE LET x == IF ord = "asc"
                  THEN CHOOSE y \in S : \A z \in S : y <= z
                  ELSE CHOOSE y \in S : \A z \in S : y >= z
         IN <<x>> \o SetToSeq(S \ {x}, ord)

(***************************************************************************)
(* Class files.  A method is [name, desc, static, abstract, native,        *)
(* private, code, etable]; code is a sequence of instructions, etable the  *)
(* exception table.  A field is [name, desc, static].                      *)
(***************************************************************************)
Mth(name, desc, static, abstract, native, code, etable) ==
    [name |-> name, desc |-> desc, static |-> static, abstract |-> abstract,
     native |-> native, private |-> FALSE, code |-> code, etable |-> etable]

Fld(name, desc, static) == [name |-> name, desc |-> desc, static |-> static]

ClassFileOf(kind, super, abstract, interfaces, fields, methods) ==
    [kind |-> kind, super |-> super, abstract |-> abstract,
     interfaces |-> interfaces, fields |-> fields, methods |-> methods]

Plain(super) == ClassFileOf("instance", super, FALSE, <<>>, <<>>, <<>>)

init_sym == "<init>"
clinit_sym == "<clinit>"
java_lang_object_sym == "Object"

(***************************************************************************)
(* Method area: vectors and indexes                                        *)
(***************************************************************************)
\* MethodArea::init before the preload: empty vectors and indexes, and the
\* bootstrap class loader (the class bytes it can find, by name).
MethodArea_new(bootstrap_class_loader) ==
    [bootstrap_class_loader |-> bootstrap_class_loader,
     classes |-> <<>>, methods |-> <<>>,
     field_descriptors |-> <<>>, field_descriptors_index |-> EmptyMap,
     method_descriptors |-> <<>>, method_descriptors_index |-> EmptyMap,
     class_name_to_index |-> EmptyMap, mirror_to_class_index |-> EmptyMap,
     java_lang_object_id |-> 0]

\* BaseClass::new plus the once-set cells of the class variants, all unset.
\* cells is the set of once-set cells that have been set.
BaseClass_new(name, kind, abstract, super_id) ==
    [name |-> name, kind |-> kind, abstract |-> abstract, super |-> super_id,
     state |-> Loaded, cells |-> {},
     interfaces |-> {}, direct_interfaces |-> {},
     static_fields |-> EmptyMap, clinit |-> 0, mirror_ref |-> 0,
     declared |-> EmptyMap, vtable |-> <<>>, vtable_index |-> EmptyMap,
     itable |-> EmptyMap,
     instance_fields |-> <<>>, instance_fields_offset_map |-> EmptyMap,
     instance_fields_name_offset_map |-> EmptyMap, instance_size |-> 0,
     element |-> 0, element_type |-> ""]

\* Vec::push followed by ClassId::from_usize(len): the id is the new length.
push_class(m, class) ==
    [ma |-> [m EXCEPT !.classes = Append(@, class)], id |-> Len(m.classes) + 1]

push_method(m, method) ==
    [ma |-> [m EXCEPT !.methods = Append(@, method)], id |-> Len(m.methods) + 1]

push_field_descriptor(m, ty) ==
    [ma |-> [m EXCEPT !.field_descriptors = Append(@, ty)],
     id |-> Len(m.field_descriptors) + 1]

push_method_descriptor_zero_based(m, descriptor) ==
    [ma |-> [m EXCEPT !.method_descriptors = Append(@, descriptor)],
     id |-> Len(m.method_descriptors)]

push_method_descriptor(m, descriptor) ==
    [ma |-> [m EXCEPT !.method_descriptors = Append(@, descriptor)],
     id |-> Len(m.method_descriptors) + 1]

\* The index is consulted; a miss parses the descriptor and pushes it.
get_or_new_method_descriptor_id(m, descriptor) ==
    IF descriptor \in DOMAIN m.method_descriptors_index
    THEN [ma |-> m, id |-> m.method_descriptors_index[descriptor]]
    ELSE push_method_descriptor(m, descriptor)

get_or_new_field_descriptor_id(m, descriptor) ==
    IF descriptor \in DOMAIN m.field_descriptors_index
    THEN [ma |-> m, id |-> m.field_descriptors_index[descriptor]]
    ELSE push_field_descriptor(m, descriptor)

get_class(m, class_id) == m.classes[class_id]

get_method(m, method_id) == m.methods[method_id]

SetClass(m, class_id, class) == [m EXCEPT !.classes[class_id] = class]

\* AllocationType::byte_size of the field descriptor's allocation type.
byte_size(desc) ==
    CASE desc \in {"B", "Z"} -> 1
      [] desc \in {"S", "C"} -> 2
      [] desc \in {"I", "F"} -> 4
      [] OTHER -> 8

\* Value::from(&JavaType): the zero default of a static field.
default_value(desc) ==
    CASE desc \in {"B", "Z", "S", "C", "I"} -> [tag |-> "Integer", v |-> 0]
      [] desc = "J" -> [tag |-> "Long", v |-> 0]
      [] desc = "F" -> [tag |-> "Float", v |-> 0]
      [] desc = "D" -> [tag |-> "Double", v |-> 0]
      [] OTHER -> [tag |-> "Null", v |-> 0]

align_none(n, size) == n

AlignUp(n, size) == ((n + size - 1) \div size) * size

(***************************************************************************)
(* Linking of an instance class                                            *)
(***************************************************************************)
\* Every operator below returns [ma, ok, ...]: ok = FALSE is the Err the `?`
\* operator propagates; the method area keeps what was pushed before it.

InstanceClass_load(m, cf, name, super_id) ==
    push_class(m, BaseClass_new(name, "instance", cf.abstract, super_id))

\* One iteration of the loop of link_fields over the declared fields.
RECURSIVE link_fields_loop(_, _, _, _, _)
link_fields_loop(m, fields, i, this_id, acc) ==
    IF i > Len(fields) THEN [ma |-> m, acc |-> acc]
    ELSE
      LET field == fields[i]
          field_key == <<field.name, field.desc>>
          d == get_or_new_field_descriptor_id(m, field.desc)
      IN IF field.static
         THEN link_fields_loop(d.ma, fields, i + 1, this_id,
                [acc EXCEPT !.static_fields =
                    MapPut(@, field_key, default_value(field.desc))])
         ELSE
           LET size == byte_size(field.desc)
               instance_offset == AlignUp(acc.instance_size, size)
               position == Len(acc.instance_fields)
           IN link_fields_loop(d.ma, fields, i + 1, this_id,
                [acc EXCEPT
                   !.instance_size = instance_offset + size,
                   !.instance_fields = Append(@,
                       [key |-> field_key, descriptor_id |-> d.id,
                        offset |-> instance_offset, size |-> size,
                        declaring_class |-> this_id]),
                   !.instance_fields_offset_map = MapPut(@, field_key, position),
                   !.instance_fields_name_offset_map = MapPut(@, field.name, position)])

\* The start of link_fields: the superclass's field list, maps and size are
\* cloned, or the defaults (empty, 0) when there is no superclass.
inherited_layout_empty(m, super_id) ==
    [instance_fields |-> <<>>, instance_fields_offset_map |-> EmptyMap,
     instance_fields_name_offset_map |-> EmptyMap, instance_size |-> 0,
     static_fields |-> EmptyMap]

inherited_layout(m, super_id) ==
    LET sup == IF super_id = 0 THEN BaseClass_new("", "instance", FALSE, 0)
               ELSE get_class(m, super_id)
    IN [instance_fields |-> sup.instance_fields,
        instance_fields_offset_map |-> sup.instance_fields_offset_map,
        instance_fields_name_offset_map |-> sup.instance_fields_name_offset_map,
        instance_size |-> sup.instance_size,
        static_fields |-> EmptyMap]

link_fields(m, cf, this_id, super_id) ==
    LET acc0 == inherited_layout(m, super_id)
    IN With(link_fields_loop(m, cf.fields, 1, this_id, acc0), LAMBDA r :
         [ma |-> [r.ma EXCEPT !.classes[this_id] =
                 [@ EXCEPT
                    !.instance_fields = r.acc.instance_fields,
                    !.instance_fields_offset_map = r.acc.instance_fields_offset_map,
                    !.instance_fields_name_offset_map = r.acc.instance_fields_name_offset_map,
                    !.instance_size = r.acc.instance_size,
                    !.static_fields = r.acc.static_fields,
                    !.cells = @ \cup {"instance_fields", "instance_size", "static_fields"}]],
          ok |-> TRUE])

\* Method::new
Method_new(method_info, class_id, descriptor_id) ==
    [class_id |-> class_id, name |-> method_info.name, desc |-> method_info.desc,
     descriptor_id |-> descriptor_id, static |-> method_info.static,
     abstract |-> method_info.abstract, native |-> method_info.native,
     private |-> method_info.private,
     code |-> method_info.code, etable |-> method_info.etable]

\* The vtable update of prepare_methods for one virtual method.
vtable_put_always_append(vt, method_key, method_id) ==
    [vtable |-> Append(vt.vtable, method_id),
     vtable_index |-> MapPut(vt.vtable_index, method_key, Len(vt.vtable) % U16)]

vtable_put(vt, method_key, method_id) ==
    IF method_key \in DOMAIN vt.vtable_index
    THEN [vtable |-> [vt.vtable EXCEPT ![vt.vtable_index[method_key] + 1] = method_id],
          vtable_index |-> vt.vtable_index]
    ELSE [vtable |-> Append(vt.vtable, method_id),
          vtable_index |-> MapPut(vt.vtable_index, method_key, Len(vt.vtable) % U16)]

RECURSIVE prepare_methods_loop(_, _, _, _, _)
prepare_methods_loop(m, methods, i, this_id, acc) ==
    IF i > Len(methods) THEN [ma |-> m, acc |-> acc]
    ELSE
      LET method_info == methods[i]
          method_key == <<method_info.name, method_info.desc>>
          d == get_or_new_method_descriptor_id(m, method_info.desc)
          p == push_method(d.ma, Method_new(method_info, this_id, d.id))
          is_static == method_info.static
          is_constructor == method_info.name = init_sym \/ method_info.name = clinit_sym
      IN IF ~is_static /\ ~is_constructor
         THEN LET vt == vtable_put([vtable |-> acc.vtable,
                                    vtable_index |-> acc.vtable_index],
                                   method_key, p.id)
              IN prepare_methods_loop(p.ma, methods, i + 1, this_id,
                    [acc EXCEPT !.vtable = vt.vtable,
                                !.vtable_index = vt.vtable_index])
         ELSE IF method_info.name = clinit_sym
         THEN prepare_methods_loop(
                 SetClass(p.ma, this_id,
                    [get_class(p.ma, this_id) EXCEPT !.clinit = p.id,
                                                     !.cells = @ \cup {"clinit"}]),
                 methods, i + 1, this_id, acc)
         ELSE prepare_methods_loop(p.ma, methods, i + 1, this_id,
                 [acc EXCEPT !.declared_index = MapPut(@, method_key, p.id)])

prepare_methods(m, cf, this_id, super_id) ==
    LET sup == IF super_id = 0 THEN BaseClass_new("", "instance", FALSE, 0)
               ELSE get_class(m, super_id)
        acc0 == [vtable |-> sup.vtable, vtable_index |-> sup.vtable_index,
                 declared_index |-> EmptyMap]
    IN With(prepare_methods_loop(m, cf.methods, 1, this_id, acc0), LAMBDA r :
         [ma |-> [r.ma EXCEPT !.classes[this_id] =
                 [@ EXCEPT !.declared = r.acc.declared_index,
                           !.cells = @ \cup {"declared_method_index"}]],
          ok |-> TRUE,
          vtable |-> r.acc.vtable, vtable_index |-> r.acc.vtable_index])

(***************************************************************************)
(* Array descriptors.  JavaType::try_from of an array name, as a table     *)
(* over the array names the model uses: a primitive element type or an     *)
(* element class name.                                                     *)
(***************************************************************************)
ArrayTypes ==
    [n \in {"[B", "[I", "[LSub;", "[LBase;", "[LObject;", "[LNope;"} |->
        CASE n = "[B" -> [prim |-> "B", inst |-> ""]
          [] n = "[I" -> [prim |-> "I", inst |-> ""]
          [] n = "[LSub;" -> [prim |-> "", inst |-> "Sub"]
          [] n = "[LBase;" -> [prim |-> "", inst |-> "Base"]
          [] n = "[LObject;" -> [prim |-> "", inst |-> "Object"]
          [] n = "[LNope;" -> [prim |-> "", inst |-> "Nope"]]

starts_with_bracket(name) == name \in DOMAIN ArrayTypes

RECURSIVE get_class_id_or_load(_, _, _)

\* The loop of link_interfaces (the same code in class.rs and interface.rs).
RECURSIVE link_interfaces_loop(_, _, _, _, _)
link_interfaces_loop(m, interfaces, i, ord, acc) ==
    IF i > Len(interfaces) THEN [ma |-> m, ok |-> TRUE, err |-> "", acc |-> acc]
    ELSE With(get_class_id_or_load(m, interfaces[i], ord), LAMBDA r :
           IF ~r.ok THEN [ma |-> r.ma, ok |-> FALSE, err |-> r.err, acc |-> acc]
           ELSE link_interfaces_loop(r.ma, interfaces, i + 1, ord,
                  [interface_ids |-> acc.interface_ids \cup {r.id},
                   direct_interfaces |-> acc.direct_interfaces \cup {r.id}]))

link_interfaces(m, cf, this_id, super_id, ord) ==
    LET inherited == IF super_id = 0 THEN {} ELSE get_class(m, super_id).interfaces
    IN With(link_interfaces_loop(m, cf.interfaces, 1, ord,
                [interface_ids |-> inherited, direct_interfaces |-> {}]), LAMBDA r :
         IF ~r.ok THEN [ma |-> r.ma, ok |-> FALSE, err |-> r.err]
         ELSE [ma |-> [r.ma EXCEPT !.classes[this_id] =
                       [@ EXCEPT
                          !.interfaces = r.acc.interface_ids,
                          !.direct_interfaces = r.acc.direct_interfaces,
                          !.cells = @ \cup {"interfaces", "direct_interfaces"}]],
               ok |-> TRUE, err |-> ""])

\* The methods of one interface, visited in the HashMap's order (oracle ord
\* over the method ids).  acc = [vtable, vtable_index, itable].
RECURSIVE link_itable_methods(_, _, _, _, _)
link_itable_methods(m, this_id, imethods, todo, acc) ==
    IF todo = <<>> THEN [ok |-> TRUE, acc |-> acc]
    ELSE
      LET method_id == Head(todo)
          method_key == CHOOSE k \in DOMAIN imethods : imethods[k] = method_id
      IN IF method_key \in DOMAIN acc.vtable_index
         THEN link_itable_methods(m, this_id, imethods, Tail(todo),
                [acc EXCEPT !.itable =
                    MapPut(@, method_key, acc.vtable[acc.vtable_index[method_key] + 1])])
         ELSE IF ~get_method(m, method_id).abstract
         THEN link_itable_methods(m, this_id, imethods, Tail(todo),
                [vtable |-> Append(acc.vtable, method_id),
                 vtable_index |-> MapPut(acc.vtable_index, method_key,
                                         Len(acc.vtable) % U16),
                 itable |-> MapPut(acc.itable, method_key, method_id)])
         ELSE IF ~get_class(m, this_id).abstract
         THEN [ok |-> FALSE, acc |-> acc]
         ELSE link_itable_methods(m, this_id, imethods, Tail(todo), acc)

RECURSIVE link_itable_interfaces(_, _, _, _, _)
link_itable_interfaces(m, this_id, todo, ord, acc) ==
    IF todo = <<>> THEN [ok |-> TRUE, acc |-> acc]
    ELSE
      LET interface_class == get_class(m, Head(todo))
      IN IF interface_class.kind # "interface" THEN [ok |-> FALSE, acc |-> acc]
         ELSE
           LET imethods == interface_class.declared
               ids == {imethods[k] : k \in DOMAIN imethods}
           IN With(link_itable_methods(m, this_id, imethods, SetToSeq(ids, ord), acc),
                   LAMBDA r :
                IF ~r.ok THEN r
                ELSE link_itable_interfaces(m, this_id, Tail(todo), ord, r.acc))

\* A linker that starts from the superclass's itable and visits only the
\* interfaces the class file names.
link_itable_and_vtable_direct(m, this_id, super_id, vtable, vtable_index, ord) ==
    LET itable0 == IF super_id = 0 THEN EmptyMap ELSE get_class(m, super_id).itable
    IN With(link_itable_interfaces(m, this_id,
                SetToSeq(get_class(m, this_id).direct_interfaces, ord), ord,
                [vtable |-> vtable, vtable_index |-> vtable_index, itable |-> itable0]),
            LAMBDA r :
         IF ~r.ok THEN [ma |-> m, ok |-> FALSE, err |-> "Todo"]
         ELSE [ma |-> [m EXCEPT !.classes[this_id] =
                       [@ EXCEPT
                          !.itable = r.acc.itable,
                          !.vtable = r.acc.vtable,
                          !.vtable_index = r.acc.vtable_index,
                          !.cells = @ \cup {"itable", "vtable", "vtable_index"}]],
               ok |-> TRUE, err |-> ""])

link_itable_and_vtable(m, this_id, super_id, vtable, vtable_index, ord) ==
    LET itable0 == IF super_id = 0 THEN EmptyMap ELSE get_class(m, super_id).itable
    IN With(link_itable_interfaces(m, this_id,
                SetToSeq(get_class(m, this_id).interfaces, ord), ord,
                [vtable |-> vtable, vtable_index |-> vtable_index, itable |-> itable0]),
            LAMBDA r :
         IF ~r.ok THEN [ma |-> m, ok |-> FALSE, err |-> "Todo"]
         ELSE [ma |-> [m EXCEPT !.classes[this_id] =
                       [@ EXCEPT
                          !.itable = r.acc.itable,
                          !.vtable = r.acc.vtable,
                          !.vtable_index = r.acc.vtable_index,
                          !.cells = @ \cup {"itable", "vtable", "vtable_index"}]],
               ok |-> TRUE, err |-> ""])

\* ClassLike::set_linked: a plain store of Linked.
set_linked(m, class_id) == [m EXCEPT !.classes[class_id].state = Linked]

InstanceClass_load_and_link(m, cf, name, super_id, ord) ==
    With(InstanceClass_load(m, cf, name, super_id), LAMBDA l :
    With(link_fields(l.ma, cf, l.id, super_id), LAMBDA f :
    With(prepare_methods(f.ma, cf, l.id, super_id), LAMBDA p :
    With(link_interfaces(p.ma, cf, l.id, super_id, ord), LAMBDA i :
      IF ~i.ok THEN [ma |-> i.ma, ok |-> FALSE, err |-> i.err, id |-> 0]
      ELSE
        With(link_itable_and_vtable(i.ma, l.id, super_id, p.vtable, p.vtable_index, ord),
             LAMBDA v :
          IF ~v.ok THEN [ma |-> v.ma, ok |-> FALSE, err |-> v.err, id |-> 0]
          ELSE [ma |-> set_linked(v.ma, l.id), ok |-> TRUE, err |-> "", id |-> l.id])))))

(***************************************************************************)
(* Linking of an interface                                                 *)
(***************************************************************************)
InterfaceClass_load(m, cf, name, super_id) ==
    push_class(m, BaseClass_new(name, "interface", cf.abstract, super_id))

\* InterfaceClass::link_methods: every method but <clinit> enters the map.
RECURSIVE InterfaceClass_link_methods_loop(_, _, _, _, _)
InterfaceClass_link_methods_loop(m, methods, i, this_id, declared_index) ==
    IF i > Len(methods) THEN [ma |-> m, declared_index |-> declared_index]
    ELSE
      LET method_info == methods[i]
          method_key == <<method_info.name, method_info.desc>>
          d == get_or_new_method_descriptor_id(m, method_info.desc)
          p == push_method(d.ma, Method_new(method_info, this_id, d.id))
      IN IF method_info.name = clinit_sym
         THEN InterfaceClass_link_methods_loop(
                 SetClass(p.ma, this_id,
                    [get_class(p.ma, this_id) EXCEPT !.clinit = p.id,
                                                     !.cells = @ \cup {"clinit"}]),
                 methods, i + 1, this_id, declared_index)
         ELSE InterfaceClass_link_methods_loop(p.ma, methods, i + 1, this_id,
                 MapPut(declared_index, method_key, p.id))

InterfaceClass_link_methods(m, cf, this_id) ==
    With(InterfaceClass_link_methods_loop(m, cf.methods, 1, this_id, EmptyMap),
         LAMBDA r :
      [r.ma EXCEPT !.classes[this_id] =
          [@ EXCEPT !.declared = r.declared_index, !.cells = @ \cup {"methods"}]])

RECURSIVE InterfaceClass_link_fields_loop(_, _, _, _)
InterfaceClass_link_fields_loop(m, fields, i, static_fields) ==
    IF i > Len(fields) THEN [ma |-> m, static_fields |-> static_fields]
    ELSE LET field == fields[i]
             d == get_or_new_field_descriptor_id(m, field.desc)
         IN InterfaceClass_link_fields_loop(d.ma, fields, i + 1,
               MapPut(static_fields, <<field.name, field.desc>>,
                      default_value(field.desc)))

InterfaceClass_link_fields(m, cf, this_id) ==
    With(InterfaceClass_link_fields_loop(m, cf.fields, 1, EmptyMap), LAMBDA r :
      [r.ma EXCEPT !.classes[this_id] =
          [@ EXCEPT !.static_fields = r.static_fields,
                    !.cells = @ \cup {"static_fields"}]])

\* InterfaceClass::load_and_link: no set_linked, the state stays Loaded.
InterfaceClass_load_and_link(m, cf, name, super_id, ord) ==
    With(InterfaceClass_load(m, cf, name, super_id), LAMBDA l :
    With(link_interfaces(
            InterfaceClass_link_fields(
                InterfaceClass_link_methods(l.ma, cf, l.id), cf, l.id),
            cf, l.id, super_id, ord), LAMBDA i :
      IF ~i.ok THEN [ma |-> i.ma, ok |-> FALSE, err |-> i.err, id |-> 0]
      ELSE [ma |-> i.ma, ok |-> TRUE, err |-> "", id |-> l.id]))

(***************************************************************************)
(* Class loading                                                           *)
(***************************************************************************)
load_array_class(m, name_sym, ord) ==
    IF name_sym \in DOMAIN m.class_name_to_index
    THEN [ma |-> m, ok |-> TRUE, err |-> "", id |-> m.class_name_to_index[name_sym]]
    ELSE
      With(get_or_new_field_descriptor_id(m, name_sym), LAMBDA d :
      LET ty == ArrayTypes[name_sym]
          obj_class_id == m.java_lang_object_id
          object == get_class(m, obj_class_id)
      IN IF obj_class_id = 0 THEN [ma |-> d.ma, ok |-> FALSE, err |-> "Todo", id |-> 0]
         ELSE IF ty.prim # ""
         THEN With(push_class(d.ma,
                     [BaseClass_new(name_sym, "primarray", FALSE, obj_class_id)
                         EXCEPT !.vtable = object.vtable,
                                !.vtable_index = object.vtable_index,
                                !.element_type = ty.prim]), LAMBDA p :
                [ma |-> [p.ma EXCEPT !.class_name_to_index = MapPut(@, name_sym, p.id)],
                 ok |-> TRUE, err |-> "", id |-> p.id])
         ELSE With(get_class_id_or_load(d.ma, ty.inst, ord), LAMBDA e :
                IF ~e.ok THEN [ma |-> e.ma, ok |-> FALSE, err |-> e.err, id |-> 0]
                ELSE With(push_class(e.ma,
                            [BaseClass_new(name_sym, "objarray", FALSE, obj_class_id)
                                EXCEPT !.vtable = object.vtable,
                                       !.vtable_index = object.vtable_index,
                                       !.element = e.id]), LAMBDA p :
                       [ma |-> [p.ma EXCEPT !.class_name_to_index =
                                               MapPut(@, name_sym, p.id)],
                        ok |-> TRUE, err |-> "", id |-> p.id])))

\* ClassLoader::load: the class bytes by name, or the class-not-found error.
ClassLoader_load(loader, name) ==
    IF name \in DOMAIN loader
    THEN [ok |-> TRUE, err |-> "", cf |-> loader[name]]
    ELSE [ok |-> FALSE, err |-> "ClassNotFoundException", cf |-> Plain("")]

load_class(m, name_sym, ord) ==
    IF starts_with_bracket(name_sym) THEN load_array_class(m, name_sym, ord)
    ELSE IF ~ClassLoader_load(m.bootstrap_class_loader, name_sym).ok
    THEN [ma |-> m, ok |-> FALSE,
          err |-> ClassLoader_load(m.bootstrap_class_loader, name_sym).err, id |-> 0]
    ELSE
      With(ClassLoader_load(m.bootstrap_class_loader, name_sym).cf, LAMBDA cf :
      With(IF cf.super = "" THEN [ma |-> m, ok |-> TRUE, err |-> "", id |-> 0]
           ELSE get_class_id_or_load(m, cf.super, ord), LAMBDA s :
        IF ~s.ok THEN [ma |-> s.ma, ok |-> FALSE, err |-> s.err, id |-> 0]
        ELSE
          With(IF cf.kind = "interface"
               THEN InterfaceClass_load_and_link(s.ma, cf, name_sym, s.id, ord)
               ELSE InstanceClass_load_and_link(s.ma, cf, name_sym, s.id, ord),
               LAMBDA r :
            IF ~r.ok THEN r
            ELSE [ma |-> [r.ma EXCEPT !.class_name_to_index =
                                         MapPut(@, name_sym, r.id)],
                  ok |-> TRUE, err |-> "", id |-> r.id])))

get_class_id_or_load_no_cache(m, name_sym, ord) == load_class(m, name_sym, ord)

get_class_id_or_load(m, name_sym, ord) ==
    IF name_sym \in DOMAIN m.class_name_to_index
    THEN [ma |-> m, ok |-> TRUE, err |-> "", id |-> m.class_name_to_index[name_sym]]
    ELSE load_class(m, name_sym, ord)

(***************************************************************************)
(* Assignability                                                           *)
(***************************************************************************)
is_array(class) == class.kind \in {"primarray", "objarray"}

\* Assignability without the recursion: the class itself, its superclass or
\* one of its recorded interfaces.
is_subclass_of_direct(m, this_class, target_class) ==
    IF this_class = target_class
          \/ get_class(m, this_class).super = target_class
          \/ target_class \in get_class(m, this_class).interfaces
    THEN "true" ELSE "false"

\* "true", "false", or "panic" where the program reaches unimplemented!().
RECURSIVE is_subclass_of(_, _, _)
is_subclass_of(m, this_class, target_class) ==
    IF this_class = target_class THEN "true"
    ELSE
      LET this == get_class(m, this_class)
          target == get_class(m, target_class)
      IN IF is_array(this) /\ is_array(target)
         THEN IF this.kind = "primarray" /\ target.kind = "primarray"
              THEN IF this.element_type = target.element_type THEN "true" ELSE "false"
              ELSE IF this.kind = "objarray" /\ target.kind = "objarray"
              THEN is_subclass_of(m, this.element, target.element)
              ELSE "false"
         ELSE IF this.super # 0 /\ is_subclass_of(m, this.super, target_class) = "true"
         THEN "true"
         ELSE IF this.kind \notin {"instance", "interface"}
                 \/ "interfaces" \notin this.cells
         THEN "panic"
         ELSE IF \E i \in this.interfaces : is_subclass_of(m, i, target_class) = "true"
         THEN "true"
         ELSE "false"

instance_of(m, this_class_id, other_sym) ==
    IF other_sym \in DOMAIN m.class_name_to_index
    THEN is_subclass_of(m, this_class_id, m.class_name_to_index[other_sym])
    ELSE "false"

(***************************************************************************)
(* Bytecode.  An instruction is [op, a, b, n]: a and b are symbols (class, *)
(* member name), n an integer operand.  A pc is a byte offset.             *)
(***************************************************************************)
Ins(op, a, b, n) == [op |-> op, a |-> a, b |-> b, n |-> n]

\* Instruction::byte_size
instr_byte_size(ins) ==
    IF ins.op \in {"new", "getstatic", "putstatic", "invokestatic", "iinc"} THEN 3 ELSE 1

\* Instruction::new_at(code, pc): the instruction that starts at byte pc, or
\* op "invalid" when no instruction starts there.
RECURSIVE InstrAtFrom(_, _, _, _)
InstrAtFrom(code, i, at, pc) ==
    IF i > Len(code) \/ at > pc THEN Ins("invalid", "", "", 0)
    ELSE IF at = pc THEN code[i]
    ELSE InstrAtFrom(code, i + 1, at + instr_byte_size(code[i]), pc)

Instruction_new_at(code, pc) == InstrAtFrom(code, 1, 0, pc)

ETE(start_pc, end_pc, handler_pc, catch_type) ==
    [start_pc |-> start_pc, end_pc |-> end_pc, handler_pc |-> handler_pc,
     catch_type |-> catch_type]

\* MethodDescriptor params.len() for the descriptors the model uses.
params_len(desc) ==
    CASE desc \in {"(I)V", "(J)V", "(D)V"} -> 1
      [] desc = "(JI)V" -> 2
      [] OTHER -> 0

(***************************************************************************)
(* The class files of the model's classpath                                *)
(***************************************************************************)
Ret == <<Ins("return", "", "", 0)>>

Virt(name, desc) == Mth(name, desc, FALSE, FALSE, FALSE, Ret, <<>>)
Stat(name, desc, code, etable) == Mth(name, desc, TRUE, FALSE, FALSE, code, etable)
Natv(name, desc) == Mth(name, desc, TRUE, FALSE, TRUE, <<>>, <<>>)
Abst(name, desc) == Mth(name, desc, FALSE, TRUE, FALSE, <<>>, <<>>)
\* A private instance method (ACC_PRIVATE).
Priv(name, desc) == [Virt(name, desc) EXCEPT !.private = TRUE]

BaseClinit(v) ==
    CASE v = "plain"  -> <<Ins("iconst", "", "", 1), Ins("putstatic", "Base", "x", 0),
                           Ins("return", "", "", 0)>>
      [] v = "newSub" -> <<Ins("new", "Sub", "", 0), Ins("pop", "", "", 0),
                           Ins("return", "", "", 0)>>
      [] v = "throws" -> <<Ins("iconst", "", "", 1), Ins("iconst", "", "", 0),
                           Ins("idiv", "", "", 0), Ins("return", "", "", 0)>>

BaseFile(v) ==
    ClassFileOf("instance", "Object", FALSE, <<>>,
        <<Fld("x", "I", TRUE), Fld("f1", "B", FALSE), Fld("f2", "J", FALSE)>>,
        <<Stat(clinit_sym, "()V", BaseClinit(v), <<>>), Virt(init_sym, "()V"),
          Virt("m1", "()V"), Stat("s1", "()V", Ret, <<>>)>>)

SubFile(shape) ==
    ClassFileOf("instance", "Base", FALSE, <<"Iface">>,
        <<Fld("y", "I", TRUE), Fld("g1", "I", FALSE)>>,
        <<Stat(clinit_sym, "()V",
               <<Ins("getstatic", "Base", "x", 0), Ins("pop", "", "", 0),
                 Ins("return", "", "", 0)>>, <<>>),
          Virt(init_sym, "()V")>>
        \o (IF shape = "override" THEN <<Virt("m1", "()V")>>
            ELSE <<Stat("m1", "(I)V", Ret, <<>>)>>)
        \o <<Virt("m2", "()V"), Virt("im", "()V")>>)

IfaceFile ==
    ClassFileOf("interface", "Object", TRUE, <<>>, <<Fld("K", "I", TRUE)>>,
        <<Abst("im", "()V"), Virt("d1", "()V")>>)

IfaceCFile ==
    ClassFileOf("interface", "Object", TRUE, <<"Iface">>, <<Fld("KC", "I", TRUE)>>,
        <<Stat(clinit_sym, "()V", Ret, <<>>)>>)

ImplFile ==
    ClassFileOf("instance", "Object", FALSE, <<"IfaceC">>, <<>>,
        <<Virt(init_sym, "()V"), Virt("d1", "()V")>>)

BadFile == ClassFileOf("instance", "Object", FALSE, <<"Iface">>, <<>>, <<>>)

\* An interface with a static method that has a body, and a class that
\* implements it without declaring a method of that name.
IfaceSFile ==
    ClassFileOf("interface", "Object", TRUE, <<>>, <<>>,
        <<Abst("im", "()V"), Stat("sm", "()V", Ret, <<>>)>>)

ImplSFile ==
    ClassFileOf("instance", "Object", FALSE, <<"IfaceS">>, <<>>,
        <<Virt(init_sym, "()V"), Virt("im", "()V")>>)

\* An interface and a class with instance methods that take int, long and
\* double parameters.
IfaceJFile ==
    ClassFileOf("interface", "Object", TRUE, <<>>, <<>>,
        <<Abst("ij", "(J)V"), Abst("ii", "(I)V"), Abst("i0", "()V"),
          Virt("idf", "(D)V")>>)

RecvFile ==
    ClassFileOf("instance", "Object", FALSE, <<"IfaceJ">>, <<>>,
        <<Virt(init_sym, "()V"), Virt("vj", "(J)V"), Virt("vji", "(JI)V"),
          Virt("vi", "(I)V"), Virt("v0", "()V"), Virt("ij", "(J)V"),
          Virt("ii", "(I)V"), Virt("i0", "()V"), Stat("caller", "()V", Ret, <<>>)>>)

\* A subclass of Base with fields of every size, one that redeclares an
\* inherited field key (f2 J) and one that reuses an inherited name with
\* another type (f1 I).
WideFile ==
    ClassFileOf("instance", "Base", FALSE, <<>>,
        <<Fld("a", "B", FALSE), Fld("s", "S", FALSE), Fld("z", "Z", FALSE),
          Fld("f1", "I", FALSE), Fld("c", "C", FALSE), Fld("f2", "J", FALSE),
          Fld("w", "I", TRUE), Fld("r", "LObject;", FALSE), Fld("b", "B", FALSE)>>,
        <<Virt(init_sym, "()V")>>)

\* Arithmetic on the operands and on local 0.  The instructions start at the
\* bytes 0 iadd, 1 isub, 2 imul, 3 idiv, 4 irem, 5 ineg, 6 iinc 0 1,
\* 9 iinc 0 -1, 12 ladd, 13 lsub, 14 lmul, 15 ldiv, 16 lrem, 17 return, and the
\* handler at 18.
CalcCode ==
    <<Ins("iadd", "", "", 0), Ins("isub", "", "", 0), Ins("imul", "", "", 0),
      Ins("idiv", "", "", 0), Ins("irem", "", "", 0), Ins("ineg", "", "", 0),
      Ins("iinc", "", "", 1), Ins("iinc", "", "", -1), Ins("ladd", "", "", 0),
      Ins("lsub", "", "", 0), Ins("lmul", "", "", 0), Ins("ldiv", "", "", 0),
      Ins("lrem", "", "", 0), Ins("return", "", "", 0), Ins("pop", "", "", 0),
      Ins("return", "", "", 0)>>

\* guarded catches ArithmeticException around every instruction and
\* unguarded has no handler.
CalcFile ==
    ClassFileOf("instance", "Object", FALSE, <<>>, <<>>,
      <<Stat("guarded", "(I)V", CalcCode, <<ETE(0, 17, 18, "ArithmeticException")>>),
        Stat("unguarded", "(I)V", CalcCode, <<>>)>>)

\* Class Catch: run raises at pc 0 (through the callee thrower, which
\* divides by zero), at pc 3 (idiv) and at pc 4 (athrow); handlers start at
\* pc 6 and pc 7.  The exception table of run is a parameter.
CatchCode ==
    <<Ins("invokestatic", "Catch", "thrower", 0), Ins("idiv", "", "", 0),
      Ins("athrow", "", "", 0), Ins("return", "", "", 0),
      Ins("pop", "", "", 0), Ins("return", "", "", 0)>>

ThrowerCode ==
    <<Ins("iconst", "", "", 1), Ins("iconst", "", "", 0), Ins("idiv", "", "", 0),
      Ins("return", "", "", 0)>>

CatchFile(table) ==
    ClassFileOf("instance", "Object", FALSE, <<>>, <<>>,
      <<Stat("run", "()V", CatchCode, table),
        Stat("thrower", "()V", ThrowerCode, <<>>)>>)

MainFile ==
    ClassFileOf("instance", "Object", FALSE, <<>>, <<>>,
      <<Stat("tCatch", "()V",
             <<Ins("iconst", "", "", 7), Ins("new", "Exc", "", 0), Ins("athrow", "", "", 0),
               Ins("pop", "", "", 0), Ins("return", "", "", 0)>>,
             <<ETE(0, 5, 5, "Throwable")>>),
        Stat("tDiv", "(I)V",
             <<Ins("iconst", "", "", 5), Ins("iconst", "", "", 1), Ins("iload", "", "", 0),
               Ins("idiv", "", "", 0), Ins("pop", "", "", 0), Ins("pop", "", "", 0),
               Ins("return", "", "", 0), Ins("pop", "", "", 0), Ins("return", "", "", 0)>>,
             <<ETE(0, 2, 7, ""), ETE(2, 4, 7, "Exc"), ETE(2, 4, 7, "ArithmeticException")>>),
        Stat("thrower", "()V",
             <<Ins("new", "Exc", "", 0), Ins("athrow", "", "", 0)>>, <<>>),
        Stat("tCall", "()V",
             <<Ins("invokestatic", "Main", "thrower", 0), Ins("return", "", "", 0),
               Ins("pop", "", "", 0), Ins("return", "", "", 0)>>,
             <<ETE(0, 3, 4, "Exc")>>),
        Stat("tCallNo", "()V",
             <<Ins("iconst", "", "", 3), Ins("invokestatic", "Main", "thrower", 0),
               Ins("return", "", "", 0)>>,
             <<ETE(4, 5, 4, "")>>),
        Stat("tNat", "()V",
             <<Ins("invokestatic", "Main", "natOk", 0),
               Ins("invokestatic", "Main", "natInit", 0),
               Ins("invokestatic", "Main", "natThrow", 0),
               Ins("return", "", "", 0), Ins("pop", "", "", 0),
               Ins("invokestatic", "Main", "natMissing", 0),
               Ins("return", "", "", 0)>>,
             <<ETE(6, 9, 10, "")>>),
        Stat("tNew", "()V",
             <<Ins("new", "Sub", "", 0), Ins("pop", "", "", 0),
               Ins("new", "Impl", "", 0), Ins("pop", "", "", 0),
               Ins("return", "", "", 0)>>, <<>>),
        Stat("tStatic", "()V",
             <<Ins("getstatic", "Sub", "K", 0), Ins("putstatic", "Base", "x", 0),
               Ins("invokestatic", "Sub", "s1", 0), Ins("return", "", "", 0)>>, <<>>),
        Stat("tInitCatch", "()V",
             <<Ins("new", "Base", "", 0), Ins("pop", "", "", 0), Ins("return", "", "", 0),
               Ins("pop", "", "", 0), Ins("new", "Sub", "", 0), Ins("pop", "", "", 0),
               Ins("return", "", "", 0)>>,
             <<ETE(0, 3, 5, "")>>),
        Natv("natOk", "()V"), Natv("natInit", "()V"),
        Natv("natThrow", "()V"), Natv("natMissing", "()V")>>)

ClassPathOf(v, shape) ==
    [n \in {"Object", "System", "Class", "Throwable", "Thread", "ThreadGroup",
            "String", "Exc", "ArithmeticException", "NullPointerException",
            "UnsatisfiedLinkError", "ClassNotFoundException",
            "Base", "Sub", "Iface", "IfaceC", "Impl", "Bad", "IfaceS", "ImplS",
            "Wide", "IfaceJ", "Recv", "Orphan", "Calc", "Catch", "Main"} |->
        CASE n = "Object" ->
               ClassFileOf("instance", "", FALSE, <<>>, <<>>,
                  <<Virt(init_sym, "()V"),
                    Mth("hashCode", "()I", FALSE, FALSE, TRUE, <<>>, <<>>)>>)
          [] n \in {"System", "Class", "Thread", "ThreadGroup", "String"} -> Plain("Object")
          [] n = "Throwable" ->
               ClassFileOf("instance", "Object", FALSE, <<>>, <<>>,
                  <<Virt(init_sym, "()V")>>)
          [] n \in {"Exc", "ArithmeticException", "NullPointerException",
                    "UnsatisfiedLinkError", "ClassNotFoundException"} -> Plain("Throwable")
          [] n = "Base" -> BaseFile(v)
          [] n = "Sub" -> SubFile(shape)
          [] n = "Iface" -> IfaceFile
          [] n = "IfaceC" -> IfaceCFile
          [] n = "Impl" -> ImplFile
          [] n = "Bad" -> BadFile
          [] n = "IfaceS" -> IfaceSFile
          [] n = "ImplS" -> ImplSFile
          [] n = "Wide" -> WideFile
          [] n = "IfaceJ" -> IfaceJFile
          [] n = "Recv" -> RecvFile
          [] n = "Orphan" -> Plain("Nope")
          [] n = "Calc" -> CalcFile
          [] n = "Catch" -> CatchFile(<<>>)
          [] n = "Main" -> MainFile]

ClassPaths ==
    {ClassPathOf("plain", "override"), ClassPathOf("newSub", "override"),
     ClassPathOf("throws", "inherit"), ClassPathOf("plain", "inherit")}

\* Names the driver may ask the method area to load.
LoadNames == {"Base", "Sub", "Impl", "Bad", "ImplS", "Wide", "Orphan", "[LBase;", "[LObject;", "[I", "[LSub;", "[LNope;"}

PrimitiveNames == <<"boolean", "byte", "char", "short", "int", "long", "float", "double">>

(***************************************************************************)
(* Construction: MethodArea::init preloads the basic classes.              *)
(***************************************************************************)
Threads == {1, 2}

NoSig == [kind |-> "none", ref |-> 0, exc |-> "", val |-> <<>>]

RECURSIVE preload_named(_, _, _)
preload_named(m, names, i) ==
    IF i > Len(names) THEN m
    ELSE With(get_class_id_or_load(m, names[i], "asc"), LAMBDA r :
           preload_named(IF names[i] = java_lang_object_sym
                         THEN [r.ma EXCEPT !.java_lang_object_id = r.id]
                         ELSE r.ma,
                         names, i + 1))

RECURSIVE preload_primitives(_, _)
preload_primitives(m, i) ==
    IF i > Len(PrimitiveNames) THEN m
    ELSE LET p == push_class(m, BaseClass_new(PrimitiveNames[i], "primitive", FALSE, 0))
         IN preload_primitives(
               [p.ma EXCEPT !.class_name_to_index = MapPut(@, PrimitiveNames[i], p.id)],
               i + 1)

preload_basic_classes(m) ==
    preload_primitives(
        preload_named(m, <<"Object", "System", "Class", "Throwable", "Thread",
                           "ThreadGroup", "String", "[B">>, 1),
        1)

\* Heap::new: the mapping is anonymous memory, so every byte starts as zero, and
\* the first ObjectHeader::SIZE bytes are never handed out.  objs is the view
\* of the object headers written by the allocators; string_pool is the intern
\* pool.
Heap_new ==
    [allocated |-> ObjectHeaderSize, objs |-> EmptyMap,
     mem |-> [a \in 0..(HeapCapacity - 1) |-> 0], string_pool |-> EmptyMap]

Init ==
    /\ \E cp \in ClassPaths :
          /\ classpath = cp
          /\ ma = preload_basic_classes(MethodArea_new(cp))
    /\ heap = Heap_new
    /\ frames = [t \in Threads |-> <<>>]
    /\ ctl = [t \in Threads |-> [acts |-> <<>>, sig |-> NoSig]]
    /\ result = [t \in Threads |-> "none"]
    /\ calls = 0
    /\ ev = NoEv
    /\ hist = [first |-> EmptyMap, failed_since |-> {},
               clinit_count |-> EmptyMap, transitions |-> EmptyMap, allocs |-> <<>>]

(***************************************************************************)
(* The loading driver: a caller holding the method area's write lock asks  *)
(* for a class by name.                                                    *)
(***************************************************************************)
Load(name_sym, ord) ==
    /\ calls < MaxLoads
    /\ \E r \in {get_class_id_or_load(ma, name_sym, ord)} :
          /\ ma' = r.ma
          /\ ev' = [NoEv EXCEPT !.type = "load", !.name = name_sym, !.ok = r.ok,
                                !.id = r.id,
                                !.again = name_sym \in DOMAIN hist.first,
                                !.after_fail = name_sym \in hist.failed_since,
                                !.n = Len(r.ma.classes) - Len(ma.classes)]
          /\ hist' = [hist EXCEPT
                        !.first = IF r.ok /\ name_sym \notin DOMAIN @
                                  THEN MapPut(@, name_sym, r.id) ELSE @,
                        !.failed_since = IF r.ok THEN @ ELSE DOMAIN hist.first]
    /\ calls' = calls + 1
    /\ UNCHANGED <<classpath, heap, frames, ctl, result>>

NextLoad == \E name_sym \in LoadNames, ord \in {"asc", "desc"} : Load(name_sym, ord)

SpecLoad == Init /\ [][NextLoad]_vars

(***************************************************************************)
(* Values, frames and the frame stack of a thread                          *)
(***************************************************************************)
Integer(v) == [tag |-> "Integer", v |-> v]
Ref(r) == [tag |-> "Ref", v |-> r]

JavaFrame_new(method_id, args) ==
    [kind |-> "java", method_id |-> method_id, pc |-> 0,
     operands |-> <<>>, locals |-> args]

NativeFrame_new(method_id) ==
    [kind |-> "native", method_id |-> method_id, pc |-> 0,
     operands |-> <<>>, locals |-> <<>>]

Top(s) == s[Len(s)]
Pop(s) == SubSeq(s, 1, Len(s) - 1)

\* FrameStack::push_frame: the stack has a fixed capacity.
push_frame(fr, frame) ==
    IF Len(fr) >= MaxFrames THEN [ok |-> FALSE, frames |-> fr]
    ELSE [ok |-> TRUE, frames |-> Append(fr, frame)]

\* FrameStack::pop_java_frame / pop_native_frame
pop_frame(fr) == Pop(fr)

\* FrameStack::push_operand on the current frame
push_operand(fr, value) ==
    [fr EXCEPT ![Len(fr)].operands = Append(@, value)]

\* FrameStack::pop_operand: the current frame without its top cell
pop_operand(fr) ==
    [fr EXCEPT ![Len(fr)].operands = Pop(@)]

top_operand(fr) == Top(Top(fr).operands)

\* JavaFrame::increment_pc
increment_pc(fr, size) == [fr EXCEPT ![Len(fr)].pc = @ + size]

(***************************************************************************)
(* Results of the interpreter's host-level calls.  kind "ok" carries the   *)
(* Option<Value> in val (empty or one value); "thrown" is                  *)
(* JvmError::JavaExceptionThrown(ref); "jexc" is JvmError::JavaException   *)
(* of the kind exc; "fatal" is any other JvmError.                         *)
(***************************************************************************)
OkSig(val) == [kind |-> "ok", ref |-> 0, exc |-> "", val |-> val]
ThrownSig(ref) == [kind |-> "thrown", ref |-> ref, exc |-> "", val |-> <<>>]
JavaExcSig(exc) == [kind |-> "jexc", ref |-> 0, exc |-> exc, val |-> <<>>]
FatalSig(msg) == [kind |-> "fatal", ref |-> 0, exc |-> msg, val |-> <<>>]

\* The JvmError of a failed class load.
LoadErrSig(err) ==
    IF err = "ClassNotFoundException" THEN JavaExcSig(err) ELSE FatalSig(err)

\* An activation of one of the interpreter's functions on the host stack.
\*   kind "interp"    interpret_method (under invoke_java_method)
\*   kind "ensure"    ensure_initialized
\*   kind "invstatic" invoke_static_method
\*   kind "native"    invoke_native_method
\* depth is the frame-stack depth the activation has to come back to; seen is
\* the init state the superclass was found in.
Act(kind, method_id, cls, phase) ==
    [kind |-> kind, method_id |-> method_id, cls |-> cls, phase |-> phase,
     todo |-> <<>>, args |-> <<>>, val |-> <<>>, depth |-> 0, seen |-> 0]

(***************************************************************************)
(* Heap                                                                    *)
(***************************************************************************)
\* std::ptr::write_bytes(ptr, 0, size) on the mapping
write_zeroes(mem, addr, size) ==
    [a \in DOMAIN mem |-> IF a >= addr /\ a < addr + size THEN 0 ELSE mem[a]]

\* An allocator that hands out the bump pointer without advancing it.
alloc_raw_no_bump(h, size) ==
    [ok |-> TRUE, err |-> "",
     heap |-> [h EXCEPT !.mem = write_zeroes(@, h.allocated + ObjectHeaderSize, size)],
     ref |-> h.allocated]

\* Heap::alloc_raw: a bump allocation of the header and size data bytes, the
\* total rounded up to 8; the data bytes are zeroed.
alloc_raw(h, size) ==
    LET total_needed == ObjectHeaderSize + size
        aligned_total == AlignUp(total_needed, 8)
    IN IF h.allocated + aligned_total > HeapCapacity
       THEN [ok |-> FALSE, err |-> "Todo(Heap full)", heap |-> h, ref |-> 0]
       ELSE [ok |-> TRUE, err |-> "",
             heap |-> [h EXCEPT !.allocated = @ + aligned_total,
                                !.mem = write_zeroes(@, h.allocated + ObjectHeaderSize,
                                                     size)],
             ref |-> h.allocated]

\* Heap::alloc_instance
alloc_instance(h, instance_size, class_id) ==
    LET r == alloc_raw(h, instance_size)
    IN IF ~r.ok THEN [ok |-> FALSE, err |-> r.err, heap |-> h, ref |-> 0]
       ELSE [ok |-> TRUE, err |-> "",
             heap |-> [r.heap EXCEPT !.objs =
                          MapPut(@, r.ref,
                                 [class_id |-> class_id,
                                  size |-> ObjectHeaderSize + instance_size,
                                  is_array |-> FALSE])],
             ref |-> r.ref]

\* Heap::get_class_id
Heap_get_class_id(h, heap_ref) == h.objs[heap_ref].class_id

(***************************************************************************)
(* Resolution of static members                                            *)
(***************************************************************************)
has_static_field(class, field_key) == field_key \in DOMAIN class.static_fields

RECURSIVE resolve_in_supers(_, _, _)
resolve_in_supers(m, cur_id, field_key) ==
    IF cur_id = 0 THEN 0
    ELSE IF has_static_field(get_class(m, cur_id), field_key) THEN cur_id
    ELSE resolve_in_supers(m, get_class(m, cur_id).super, field_key)

\* resolve_static_field_actual_class_id with search_interfaces_for_field; 0 is
\* the Err.  An interface looks at its own fields only.
resolve_static_field_actual_class_id(m, class_id, field_key, ord) ==
    LET class == get_class(m, class_id)
    IN IF class.kind = "instance"
       THEN LET found == resolve_in_supers(m, class_id, field_key)
                ifaces == SetToSeq(class.interfaces, ord)
                hits == SelectSeq(ifaces,
                           LAMBDA i : has_static_field(get_class(m, i), field_key))
            IN IF found # 0 THEN found
               ELSE IF hits # <<>> THEN Head(hits)
               ELSE 0
       ELSE IF class.kind = "interface"
       THEN IF has_static_field(class, field_key) THEN class_id ELSE 0
       ELSE 0

\* InstanceClass::get_special_method_id_opt / the interface's method map;
\* 0 is None.
get_static_method_id_opt(class, key) ==
    IF class.kind = "instance"
    THEN IF key \in DOMAIN class.declared THEN class.declared[key]
         ELSE IF key \in DOMAIN class.vtable_index
         THEN class.vtable[class.vtable_index[key] + 1]
         ELSE 0
    ELSE IF class.kind = "interface"
    THEN IF key \in DOMAIN class.declared THEN class.declared[key] ELSE 0
    ELSE 0

RECURSIVE get_static_method_id_rec(_, _, _)
get_static_method_id_rec(m, class_id, key) ==
    LET class == get_class(m, class_id)
    IN IF get_static_method_id_opt(class, key) # 0
       THEN get_static_method_id_opt(class, key)
       ELSE IF class.super # 0 THEN get_static_method_id_rec(m, class.super, key)
       ELSE 0

\* ClassLike::is_initialized_or_initializing
is_initialized_only(class) == class.state = Initialized

is_initialized_or_initializing(class) ==
    class.state = Initializing \/ class.state = Initialized

\* ClassLike::set_initializing / set_initialized: plain stores.
set_initializing(m, class_id) == [m EXCEPT !.classes[class_id].state = Initializing]

set_initialized_dropped(m, class_id) == m

set_initialized(m, class_id) == [m EXCEPT !.classes[class_id].state = Initialized]

(***************************************************************************)
(* The interpreter.  Thread t runs the activations of ctl[t].acts, the top *)
(* one last; ctl[t].sig is the result a finished call hands to its caller. *)
(***************************************************************************)
Alive == \A u \in Threads : result[u] # "vm_error"

Cur(t) == Top(ctl[t].acts)

Has(t, kind) == Alive /\ ctl[t].acts # <<>> /\ Cur(t).kind = kind

ReplaceTop(acts, a) == [acts EXCEPT ![Len(acts)] = a]

\* ensure_initialized reads and stores the init state under one read guard of
\* the method area; a writer (a class load) waits while a guard is held.
WriteLockFree(t) ==
    \A u \in Threads \ {t} :
        ~(ctl[u].acts # <<>> /\ Cur(u).kind = "ensure" /\ Cur(u).phase = "set")

Bump(f, k) == IF k \in DOMAIN f THEN [f EXCEPT ![k] = @ + 1] ELSE MapPut(f, k, 1)

Count(f, k) == IF k \in DOMAIN f THEN f[k] ELSE 0

Commit(t, fr, acts, sig, m, h, e, hi) ==
    /\ frames' = [frames EXCEPT ![t] = fr]
    /\ ctl' = [ctl EXCEPT ![t] = [acts |-> acts, sig |-> sig]]
    /\ ma' = m
    /\ heap' = h
    /\ ev' = [e EXCEPT !.thread = t]
    /\ hist' = hi
    /\ UNCHANGED <<classpath, result, calls>>

\* The static entry points the host invokes, with the int argument if any.
Entries ==
    {<<"tCatch", "()V", 0>>, <<"tDiv", "(I)V", 0>>, <<"tDiv", "(I)V", 1>>,
     <<"tCall", "()V", 0>>, <<"tCallNo", "()V", 0>>, <<"tNat", "()V", 0>>,
     <<"tNew", "()V", 0>>, <<"tStatic", "()V", 0>>, <<"tInitCatch", "()V", 0>>}

\* The host invokes a static method of class Main: the class is looked up
\* (loaded on first use) and invoke_static_method is entered, which first
\* calls ensure_initialized on the method's class.
StartCall(t, entry) ==
    /\ Alive
    /\ ctl[t].acts = <<>> /\ ctl[t].sig.kind = "none"
    /\ calls < MaxCalls
    /\ WriteLockFree(t)
    /\ \E r \in {get_class_id_or_load(ma, "Main", "asc")} :
       \E method_id \in {get_static_method_id_rec(r.ma, r.id, <<entry[1], entry[2]>>)} :
       LET args == IF params_len(entry[2]) = 1 THEN <<Integer(entry[3])>> ELSE <<>>
           class_id == get_method(r.ma, method_id).class_id
       IN /\ frames' = frames
          /\ ctl' = [ctl EXCEPT ![t] =
                [acts |-> <<[Act("invstatic", method_id, class_id, "ensure")
                                EXCEPT !.args = args],
                            Act("ensure", 0, class_id, "check")>>,
                 sig |-> NoSig]]
          /\ ma' = r.ma
    /\ calls' = calls + 1
    /\ result' = [result EXCEPT ![t] = "running"]
    /\ ev' = NoEv
    /\ UNCHANGED <<classpath, heap, hist>>

\* The invocation returned to the host: the thread's terminal result.
Finish(t) ==
    /\ Alive
    /\ ctl[t].acts = <<>> /\ ctl[t].sig.kind # "none"
    /\ result' = [result EXCEPT ![t] =
                    CASE ctl[t].sig.kind = "ok" -> "ok"
                      [] ctl[t].sig.kind = "thrown" -> "exception"
                      [] OTHER -> "vm_error"]
    /\ ctl' = [ctl EXCEPT ![t].sig = NoSig]
    /\ ev' = NoEv
    /\ UNCHANGED <<classpath, ma, heap, frames, calls, hist>>

(***************************************************************************)
(* ensure_initialized                                                      *)
(***************************************************************************)
\* The caller of the top activation learns the state its superclass was in.
NoteSeen(acts, state) ==
    IF Len(acts) >= 2 /\ acts[Len(acts) - 1].kind = "ensure"
          /\ acts[Len(acts) - 1].phase = "super"
    THEN [acts EXCEPT ![Len(acts) - 1].seen = state]
    ELSE acts

\* The read of the init state: return if Initializing or Initialized.
Ensure_check(t) ==
    /\ Has(t, "ensure") /\ Cur(t).phase = "check" /\ ctl[t].sig.kind = "none"
    /\ LET class == get_class(ma, Cur(t).cls)
           acts == NoteSeen(ctl[t].acts, class.state)
       IN IF class.kind \notin {"instance", "interface"}
          THEN Commit(t, frames[t], Pop(acts), FatalSig("Todo"), ma, heap, NoEv, hist)
          ELSE IF is_initialized_or_initializing(class)
          THEN Commit(t, frames[t], Pop(acts), OkSig(<<>>), ma, heap,
                      [NoEv EXCEPT !.type = "ensure_skip", !.cls = Cur(t).cls,
                                   !.name = class.name, !.seen = class.state],
                      hist)
          ELSE Commit(t, frames[t],
                      ReplaceTop(acts, [Cur(t) EXCEPT !.phase = "set"]),
                      NoSig, ma, heap, NoEv, hist)

\* The store of Initializing, then the call on the superclass (an instance
\* class) or the walk over the superinterfaces (an interface).
Ensure_set(t, ord) ==
    /\ Has(t, "ensure") /\ Cur(t).phase = "set" /\ ctl[t].sig.kind = "none"
    /\ LET class == get_class(ma, Cur(t).cls)
           m1 == set_initializing(ma, Cur(t).cls)
           hi == [hist EXCEPT !.transitions = Bump(@, class.name)]
           e == [NoEv EXCEPT !.type = "set_initializing", !.cls = Cur(t).cls,
                             !.name = class.name, !.seen = class.state]
       IN IF class.kind = "instance" /\ class.super # 0
          THEN Commit(t, frames[t],
                      Append(ReplaceTop(ctl[t].acts, [Cur(t) EXCEPT !.phase = "super"]),
                             Act("ensure", 0, class.super, "check")),
                      NoSig, m1, heap, e, hi)
          ELSE Commit(t, frames[t],
                      ReplaceTop(ctl[t].acts,
                         [Cur(t) EXCEPT !.phase = "ifaces",
                                        !.todo = SetToSeq(class.interfaces, ord)]),
                      OkSig(<<>>), m1, heap, e, hi)

\* interface_needs_initialization: the interface has a <clinit>.
interface_needs_initialization(m, interface_id) == get_class(m, interface_id).clinit # 0

RECURSIVE SkipNoInit(_, _)
SkipNoInit(m, todo) ==
    IF todo = <<>> THEN <<>>
    ELSE IF interface_needs_initialization(m, Head(todo)) THEN todo
    ELSE SkipNoInit(m, Tail(todo))

\* After the superclass: the interfaces that need initialization, one call
\* each, then run_clinit_if_exists, then the store of Initialized.  An Err of
\* a callee leaves through `?`: the class stays Initializing.
Ensure_resume(t, ord) ==
    /\ Has(t, "ensure") /\ Cur(t).phase \in {"super", "ifaces", "clinit"}
    /\ ctl[t].sig.kind # "none"
    /\ LET a == Cur(t)
           class == get_class(ma, a.cls)
           todo == SkipNoInit(ma, IF a.phase = "super"
                                  THEN SetToSeq(class.interfaces, ord) ELSE a.todo)
           pf == push_frame(frames[t], JavaFrame_new(class.clinit, <<>>))
       IN IF ctl[t].sig.kind # "ok"
          THEN Commit(t, frames[t], Pop(ctl[t].acts), ctl[t].sig, ma, heap, NoEv, hist)
          ELSE IF a.phase = "clinit" \/ (todo = <<>> /\ class.clinit = 0)
          THEN Commit(t, frames[t], Pop(ctl[t].acts), OkSig(<<>>),
                      set_initialized(ma, a.cls), heap,
                      [NoEv EXCEPT !.type = "set_initialized", !.cls = a.cls,
                                   !.name = class.name, !.seen = class.state],
                      hist)
          ELSE IF todo # <<>>
          THEN Commit(t, frames[t],
                      Append(ReplaceTop(ctl[t].acts,
                                [a EXCEPT !.phase = "ifaces", !.todo = Tail(todo)]),
                             Act("ensure", 0, Head(todo), "check")),
                      NoSig, ma, heap, NoEv, hist)
          ELSE IF ~pf.ok
          THEN Commit(t, frames[t], ctl[t].acts, FatalSig("StackOverflow"),
                      ma, heap, NoEv, hist)
          ELSE Commit(t, pf.frames,
                      Append(ReplaceTop(ctl[t].acts, [a EXCEPT !.phase = "clinit"]),
                             [Act("interp", class.clinit, a.cls, "run")
                                 EXCEPT !.depth = Len(pf.frames)]),
                      NoSig, ma, heap,
                      [NoEv EXCEPT !.type = "clinit_start", !.cls = a.cls,
                                   !.name = class.name, !.id = class.super,
                                   !.seen = a.seen],
                      [hist EXCEPT !.clinit_count = Bump(@, class.name)])

(***************************************************************************)
(* invoke_static_method, invoke_method_internal, invoke_native_method      *)
(***************************************************************************)
\* The native registry: the registered host functions, by method name.
NativeRegistry == {"natOk", "natInit", "natThrow"}

\* invoke_static_method after its ensure_initialized returned, and after the
\* invoked method returned.
InvokeStatic_resume(t) ==
    /\ Has(t, "invstatic") /\ ctl[t].sig.kind # "none"
    /\ LET a == Cur(t)
           method == get_method(ma, a.method_id)
           frame == IF method.native THEN NativeFrame_new(a.method_id)
                    ELSE JavaFrame_new(a.method_id, a.args)
           pf == push_frame(frames[t], frame)
           callee == IF method.native THEN Act("native", a.method_id, a.cls, "call")
                     ELSE [Act("interp", a.method_id, a.cls, "run")
                              EXCEPT !.depth = Len(pf.frames)]
       IN IF ctl[t].sig.kind # "ok"
          THEN Commit(t, frames[t], Pop(ctl[t].acts), ctl[t].sig, ma, heap, NoEv, hist)
          ELSE IF a.phase = "invoke"
          THEN Commit(t,
                      IF ctl[t].sig.val # <<>> /\ frames[t] # <<>>
                      THEN push_operand(frames[t], ctl[t].sig.val[1]) ELSE frames[t],
                      Pop(ctl[t].acts), OkSig(<<>>), ma, heap, NoEv, hist)
          ELSE IF ~method.native /\ method.abstract
          THEN Commit(t, frames[t], ctl[t].acts, JavaExcSig("InternalError"),
                      ma, heap, NoEv, hist)
          ELSE IF ~pf.ok
          THEN Commit(t, frames[t], ctl[t].acts, FatalSig("StackOverflow"),
                      ma, heap, NoEv, hist)
          ELSE Commit(t, pf.frames,
                      Append(ReplaceTop(ctl[t].acts, [a EXCEPT !.phase = "invoke"]),
                             callee),
                      NoSig, ma, heap,
                      [NoEv EXCEPT !.type = "static_body_start",
                                   !.cls = method.class_id, !.id = a.method_id,
                                   !.name = method.name],
                      hist)

\* invoke_native_method after the push of the native frame: the registry
\* lookup and the host function.  An Err leaves the native frame in place.
Native_call(t) ==
    /\ Has(t, "native") /\ Cur(t).phase = "call" /\ ctl[t].sig.kind = "none"
    /\ LET name == get_method(ma, Cur(t).method_id).name
       IN IF name \notin NativeRegistry
          THEN Commit(t, frames[t], Pop(ctl[t].acts),
                      JavaExcSig("UnsatisfiedLinkError"), ma, heap, NoEv, hist)
          ELSE IF name = "natOk"
          THEN Commit(t, pop_frame(frames[t]), Pop(ctl[t].acts), OkSig(<<>>),
                      ma, heap, NoEv, hist)
          ELSE IF name = "natThrow"
          THEN Commit(t, frames[t], Pop(ctl[t].acts),
                      JavaExcSig("NullPointerException"), ma, heap, NoEv, hist)
          ELSE /\ WriteLockFree(t)
               /\ \E r \in {get_class_id_or_load(ma, "Sub", "asc")} :
                  IF ~r.ok
                  THEN Commit(t, frames[t], Pop(ctl[t].acts), LoadErrSig(r.err),
                              r.ma, heap, NoEv, hist)
                  ELSE Commit(t, frames[t],
                              Append(ReplaceTop(ctl[t].acts,
                                        [Cur(t) EXCEPT !.phase = "wait"]),
                                     Act("ensure", 0, r.id, "check")),
                              NoSig, r.ma, heap, NoEv, hist)

\* The host function's call of ensure_initialized returned.
Native_resume(t) ==
    /\ Has(t, "native") /\ Cur(t).phase = "wait" /\ ctl[t].sig.kind # "none"
    /\ IF ctl[t].sig.kind = "ok"
       THEN Commit(t, pop_frame(frames[t]), Pop(ctl[t].acts), OkSig(<<>>),
                   ma, heap, NoEv, hist)
       ELSE Commit(t, frames[t], Pop(ctl[t].acts), ctl[t].sig, ma, heap, NoEv, hist)

(***************************************************************************)
(* interpret_method: the dispatch loop and the instruction handlers        *)
(***************************************************************************)
InLoop(t) ==
    Has(t, "interp") /\ Cur(t).phase = "run" /\ ctl[t].sig.kind = "none"

CurIns(t) ==
    Instruction_new_at(get_method(ma, Cur(t).method_id).code, Top(frames[t]).pc)

\* The handler is done: increment_pc by the instruction's size.
Advance(t, fr) == increment_pc(fr, instr_byte_size(CurIns(t)))

\* The handler returned this Err into the loop.
Raise(t, fr, sig) == Commit(t, fr, ctl[t].acts, sig, ma, heap, NoEv, hist)

I32Max == 2147483647
I32Min == -I32Max - 1

trunc_div(a, b) ==
    LET abs(v) == IF v < 0 THEN -v ELSE v
        q == abs(a) \div abs(b)
    IN IF (a < 0) = (b < 0) THEN q ELSE -q

\* i32::wrapping_div: truncating division, MIN / -1 wraps to MIN.
wrapping_div(a, b) ==
    IF b = I32Min THEN (IF a = I32Min THEN 1 ELSE 0)
    ELSE IF a = I32Min
    THEN IF b = -1 THEN I32Min
         ELSE IF b > 0 THEN trunc_div(a + b, b) - 1
         ELSE trunc_div(a - b, b) + 1
    ELSE trunc_div(a, b)

Do_iconst(t) ==
    /\ InLoop(t) /\ CurIns(t).op = "iconst"
    /\ Commit(t, Advance(t, push_operand(frames[t], Integer(CurIns(t).n))),
              ctl[t].acts, NoSig, ma, heap, NoEv, hist)

Do_iload(t) ==
    /\ InLoop(t) /\ CurIns(t).op = "iload"
    /\ Commit(t, Advance(t, push_operand(frames[t],
                                Top(frames[t]).locals[CurIns(t).n + 1])),
              ctl[t].acts, NoSig, ma, heap, NoEv, hist)

Do_pop(t) ==
    /\ InLoop(t) /\ CurIns(t).op = "pop"
    /\ Commit(t, Advance(t, pop_operand(frames[t])),
              ctl[t].acts, NoSig, ma, heap, NoEv, hist)

\* handle_idiv: both operands are popped before the zero test.
Do_idiv(t) ==
    /\ InLoop(t) /\ CurIns(t).op = "idiv"
    /\ LET value2 == top_operand(frames[t])
           fr1 == pop_operand(frames[t])
           value1 == top_operand(fr1)
           fr2 == pop_operand(fr1)
       IN IF value2.v = 0
          THEN Raise(t, fr2, JavaExcSig("ArithmeticException"))
          ELSE Commit(t, Advance(t, push_operand(fr2,
                                    Integer(wrapping_div(value1.v, value2.v)))),
                      ctl[t].acts, NoSig, ma, heap, NoEv, hist)

\* handle_athrow: pop the reference and return JavaExceptionThrown.
Do_athrow(t) ==
    /\ InLoop(t) /\ CurIns(t).op = "athrow"
    /\ IF top_operand(frames[t]).tag = "Ref"
       THEN Raise(t, pop_operand(frames[t]), ThrownSig(top_operand(frames[t]).v))
       ELSE Raise(t, pop_operand(frames[t]), JavaExcSig("NullPointerException"))

\* Return: interpret_method returns Ok(None), invoke_java_method pops the frame.
Do_return(t) ==
    /\ InLoop(t) /\ CurIns(t).op = "return"
    /\ Commit(t, pop_frame(frames[t]), Pop(ctl[t].acts), OkSig(<<>>),
              ma, heap, NoEv, hist)

\* The common head of handle_new, handle_getstatic, handle_putstatic and
\* handle_invokestatic: get_class_id_or_load of the referenced class under the
\* write lock, then the call of ensure_initialized on it.
LoadAndEnsure(t, fr, phase, val, ord) ==
    /\ WriteLockFree(t)
    /\ \E r \in {get_class_id_or_load(ma, CurIns(t).a, ord)} :
          IF ~r.ok
          THEN Commit(t, fr, ctl[t].acts, LoadErrSig(r.err), r.ma, heap, NoEv, hist)
          ELSE Commit(t, fr,
                      Append(ReplaceTop(ctl[t].acts,
                                [Cur(t) EXCEPT !.phase = phase, !.cls = r.id,
                                               !.val = val, !.depth = Len(fr)]),
                             Act("ensure", 0, r.id, "check")),
                      NoSig, r.ma, heap, NoEv, hist)

Do_new(t, ord) ==
    /\ InLoop(t) /\ CurIns(t).op = "new"
    /\ LoadAndEnsure(t, frames[t], "new", <<>>, ord)

Do_getstatic(t, ord) ==
    /\ InLoop(t) /\ CurIns(t).op = "getstatic"
    /\ LoadAndEnsure(t, frames[t], "getstatic", <<>>, ord)

\* handle_putstatic pops the value first.
Do_putstatic(t, ord) ==
    /\ InLoop(t) /\ CurIns(t).op = "putstatic"
    /\ LoadAndEnsure(t, pop_operand(frames[t]), "putstatic",
                     <<top_operand(frames[t])>>, ord)

Do_invokestatic(t, ord) ==
    /\ InLoop(t) /\ CurIns(t).op = "invokestatic"
    /\ LoadAndEnsure(t, frames[t], "invokestatic", <<>>, ord)

\* prepare_method_args: the argument count of the descriptor, plus one for a
\* receiver; that many cells are popped and reversed.
args_count(method) == params_len(method.desc) + (IF method.static THEN 0 ELSE 1)

prepare_method_args(fr, n) ==
    [args |-> SubSeq(Top(fr).operands, Len(Top(fr).operands) - n + 1,
                     Len(Top(fr).operands)),
     frames |-> [fr EXCEPT ![Len(fr)].operands = SubSeq(@, 1, Len(@) - n)]]

\* The rest of a handler after its call returned Ok.
Interp_resume(t, ord) ==
    /\ Has(t, "interp") /\ Cur(t).phase # "run" /\ ctl[t].sig.kind = "ok"
    /\ LET a == Cur(t)
           ins == CurIns(t)
           run == ReplaceTop(ctl[t].acts, [a EXCEPT !.phase = "run", !.val = <<>>])
           class == get_class(ma, a.cls)
           field_key == <<ins.b, "I">>
           actual == resolve_static_field_actual_class_id(ma, a.cls, field_key, ord)
           al == alloc_instance(heap, class.instance_size, a.cls)
           method_id == get_static_method_id_rec(ma, a.cls, <<ins.b, "()V">>)
           method == get_method(ma, method_id)
           pa == prepare_method_args(frames[t], args_count(method))
       IN CASE a.phase = "new" ->
                 IF class.kind # "instance" \/ ~al.ok
                 THEN Commit(t, frames[t], run, FatalSig("Todo"), ma, heap, NoEv, hist)
                 ELSE Commit(t, Advance(t, push_operand(frames[t], Ref(al.ref))),
                             run, NoSig, ma, al.heap,
                             [NoEv EXCEPT !.type = "alloc", !.cls = a.cls,
                                          !.name = class.name, !.ref = al.ref],
                             hist)
            [] a.phase = "getstatic" ->
                 IF actual = 0
                 THEN Commit(t, frames[t], run, FatalSig("Todo"), ma, heap, NoEv, hist)
                 ELSE Commit(t, Advance(t, push_operand(frames[t],
                                   get_class(ma, actual).static_fields[field_key])),
                             run, NoSig, ma, heap,
                             [NoEv EXCEPT !.type = "static_read", !.cls = actual,
                                          !.name = get_class(ma, actual).name],
                             hist)
            [] a.phase = "putstatic" ->
                 IF actual = 0
                 THEN Commit(t, frames[t], run, FatalSig("Todo"), ma, heap, NoEv, hist)
                 ELSE Commit(t, Advance(t, frames[t]), run, NoSig,
                             [ma EXCEPT !.classes[actual].static_fields[field_key]
                                           = a.val[1]],
                             heap,
                             [NoEv EXCEPT !.type = "static_write", !.cls = actual,
                                          !.name = get_class(ma, actual).name],
                             hist)
            [] a.phase = "invokestatic" ->
                 IF method_id = 0
                 THEN Commit(t, frames[t], run, JavaExcSig("NoSuchMethodError"),
                             ma, heap, NoEv, hist)
                 ELSE Commit(t, pa.frames,
                             Append(Append(ReplaceTop(ctl[t].acts,
                                              [a EXCEPT !.phase = "invoke",
                                                        !.depth = Len(frames[t])]),
                                     [Act("invstatic", method_id, method.class_id, "ensure")
                                         EXCEPT !.args = pa.args]),
                                    Act("ensure", 0, method.class_id, "check")),
                             NoSig, ma, heap, NoEv, hist)
            [] a.phase = "invoke" ->
                 Commit(t, Advance(t, frames[t]), run, NoSig, ma, heap, NoEv, hist)

\* pc_in_range with the end of the range taken in
pc_in_range_inclusive(pc, entry) == pc >= entry.start_pc /\ pc <= entry.end_pc

\* pc_in_range
pc_in_range(pc, entry) == pc >= entry.start_pc /\ pc < entry.end_pc

\* is_exception_caught: catch_type 0 catches all; else instance_of on the
\* class of the exception object and the catch type's name.
is_exception_caught(m, h, entry, java_exception) ==
    IF entry.catch_type = "" THEN TRUE
    ELSE instance_of(m, Heap_get_class_id(h, java_exception), entry.catch_type) = "true"

\* find_exception_handler: the first entry in table order that covers the pc
\* and catches; the reference is pushed and the pc set to handler_pc.
RECURSIVE find_exception_handler_from(_, _, _, _, _, _)
find_exception_handler_from(m, h, fr, exception_table, i, java_exception) ==
    IF i > Len(exception_table) THEN [found |-> FALSE, frames |-> fr, handler_pc |-> 0]
    ELSE IF pc_in_range(Top(fr).pc, exception_table[i])
            /\ is_exception_caught(m, h, exception_table[i], java_exception)
    THEN [found |-> TRUE,
          frames |-> [push_operand(fr, Ref(java_exception))
                         EXCEPT ![Len(fr)].pc = exception_table[i].handler_pc],
          handler_pc |-> exception_table[i].handler_pc]
    ELSE find_exception_handler_from(m, h, fr, exception_table, i + 1, java_exception)

find_exception_handler(m, h, fr, method_id, java_exception) ==
    find_exception_handler_from(m, h, fr, get_method(m, method_id).etable, 1,
                                java_exception)

\* VirtualMachine::map_rust_error_to_java_exception: an object of the Java
\* class of the exception kind is created.
map_rust_error_to_java_exception(m, h, exc) ==
    With(get_class_id_or_load(m, exc, "asc"), LAMBDA r :
      IF ~r.ok THEN [ok |-> FALSE, ma |-> r.ma, heap |-> h, ref |-> 0]
      ELSE With(alloc_instance(h, get_class(r.ma, r.id).instance_size, r.id),
                LAMBDA al :
             [ok |-> al.ok, ma |-> r.ma, heap |-> al.heap, ref |-> al.ref]))

\* The native frame left by a failed native call is popped.
keep_native_frame(fr) == fr

pop_native_if_current(fr) ==
    IF Top(fr).kind = "native" THEN pop_frame(fr) ELSE fr

\* The Err arm of interpret_method's loop.
Interp_error(t) ==
    /\ Has(t, "interp") /\ ctl[t].sig.kind \in {"thrown", "jexc", "fatal"}
    /\ ctl[t].sig.kind = "jexc" => WriteLockFree(t)
    /\ \E mapped \in {IF ctl[t].sig.kind = "jexc"
                       THEN map_rust_error_to_java_exception(ma, heap, ctl[t].sig.exc)
                       ELSE [ok |-> ctl[t].sig.kind = "thrown", ma |-> ma,
                             heap |-> heap, ref |-> ctl[t].sig.ref]} :
       LET a == Cur(t)
           sig == ctl[t].sig
           fr1 == pop_native_if_current(frames[t])
           fh == IF mapped.ok
                 THEN find_exception_handler(mapped.ma, mapped.heap, fr1, a.method_id,
                                             mapped.ref)
                 ELSE [found |-> FALSE, frames |-> fr1, handler_pc |-> 0]
       IN IF ~mapped.ok
          THEN Commit(t, frames[t], Pop(ctl[t].acts),
                      IF sig.kind = "fatal" THEN sig ELSE FatalSig("Todo"),
                      mapped.ma, mapped.heap, NoEv, hist)
          ELSE IF fh.found
          THEN Commit(t, fh.frames,
                      ReplaceTop(ctl[t].acts, [a EXCEPT !.phase = "run", !.val = <<>>]),
                      NoSig, mapped.ma, mapped.heap,
                      [NoEv EXCEPT !.type = "caught", !.ref = mapped.ref,
                                   !.pc = fh.handler_pc,
                                   !.stack = Top(fr1).operands,
                                   !.native = Top(frames[t]).kind = "native",
                                   !.n = Len(frames[t])],
                      hist)
          ELSE Commit(t, pop_frame(fr1), Pop(ctl[t].acts), ThrownSig(mapped.ref),
                      mapped.ma, mapped.heap,
                      [NoEv EXCEPT !.type = "unwind", !.ref = mapped.ref,
                                   !.id = sig.ref,
                                   !.native = Top(frames[t]).kind = "native",
                                   !.n = Len(frames[t])],
                      hist)

(***************************************************************************)
(* Specifications                                                          *)
(***************************************************************************)
Orders == {"asc", "desc"}

Step(t) ==
    \/ \E entry \in Entries : StartCall(t, entry)
    \/ Finish(t)
    \/ Ensure_check(t)
    \/ \E ord \in Orders : Ensure_set(t, ord)
    \/ \E ord \in Orders : Ensure_resume(t, ord)
    \/ InvokeStatic_resume(t)
    \/ Native_call(t)
    \/ Native_resume(t)
    \/ Do_iconst(t)
    \/ Do_iload(t)
    \/ Do_pop(t)
    \/ Do_idiv(t)
    \/ Do_athrow(t)
    \/ Do_return(t)
    \/ \E ord \in Orders : Do_new(t, ord)
    \/ \E ord \in Orders : Do_getstatic(t, ord)
    \/ \E ord \in Orders : Do_putstatic(t, ord)
    \/ \E ord \in Orders : Do_invokestatic(t, ord)
    \/ \E ord \in Orders : Interp_resume(t, ord)
    \/ Interp_error(t)

\* One interpreter thread.
Next == Step(1)

Spec == Init /\ [][Next]_vars

(***************************************************************************)
(* Two interpreter threads, each with its own frame stack, on one method   *)
(* area and one heap.  A step of a thread is one access to the shared      *)
(* state: the read of the init state and its store are two steps, since    *)
(* the read guard they are made under is shared between readers.  The      *)
(* threads run Main.tStatic and Main.tDiv; the steps are the ones the      *)
(* instructions of these programs and of the initializers they reach use.  *)
(***************************************************************************)
ConcEntries == {<<"tStatic", "()V", 0>>, <<"tDiv", "(I)V", 0>>}

InitConc == Init /\ classpath = ClassPathOf("plain", "override")

StepConc(t) ==
    \/ \E entry \in ConcEntries : StartCall(t, entry)
    \/ Finish(t)
    \/ Ensure_check(t)
    \/ \E ord \in Orders : Ensure_set(t, ord)
    \/ \E ord \in Orders : Ensure_resume(t, ord)
    \/ InvokeStatic_resume(t)
    \/ Do_iconst(t)
    \/ Do_iload(t)
    \/ Do_pop(t)
    \/ Do_idiv(t)
    \/ Do_return(t)
    \/ \E ord \in Orders : Do_getstatic(t, ord)
    \/ \E ord \in Orders : Do_putstatic(t, ord)
    \/ \E ord \in Orders : Do_invokestatic(t, ord)
    \/ \E ord \in Orders : Interp_resume(t, ord)
    \/ Interp_error(t)

NextConc == \E t \in Threads : StepConc(t)

SpecConc == InitConc /\ [][NextConc]_vars

(***************************************************************************)
(* Properties of exception dispatch (checked under Spec)                   *)
(***************************************************************************)

\* C1 (handler entry): when an exception E raised at a pc covered by an
\* exception-table entry whose catch type matches is caught, execution resumes
\* at handler_pc with an operand stack of exactly one cell, the reference to E.
C1_HandlerStackIsException ==
    ev.type = "caught" =>
        /\ Top(frames[ev.thread]).pc = ev.pc
        /\ Top(frames[ev.thread]).operands = <<Ref(ev.ref)>>

\* A handler entered from a throw point whose operand stack was empty.
C1_Witness ==
    /\ ev.type = "caught"
    /\ ev.stack = <<>>
    /\ Top(frames[ev.thread]).operands = <<Ref(ev.ref)>>

\* C2 (unwinding): a method without a matching handler loses exactly its own
\* frame (and the native frame on top of it, if that is the current frame) and
\* the same reference is raised again; and whenever a method's dispatch loop
\* has control, after a normal return of its callee or after an exception, the
\* frame stack has the depth it had before the invocation and its top frame is
\* the Java frame of that method.  A call that came back to the host with a
\* result or an exception leaves the frame stack as it found it.
C2_FrameBalance ==
    /\ \A t \in Threads :
          (ctl[t].acts # <<>> /\ Cur(t).kind = "interp" /\ Cur(t).phase = "run"
              /\ ctl[t].sig.kind = "none") =>
             /\ Len(frames[t]) = Cur(t).depth
             /\ Top(frames[t]).kind = "java"
             /\ Top(frames[t]).method_id = Cur(t).method_id
    /\ \A t \in Threads :
          (ctl[t].acts = <<>> /\ result[t] \in {"ok", "exception"}) => frames[t] = <<>>
    /\ ev.type = "unwind" =>
          /\ Len(frames[ev.thread]) = ev.n - (IF ev.native THEN 2 ELSE 1)
          /\ ctl[ev.thread].sig = ThrownSig(ev.ref)
          /\ ev.id # 0 => ev.ref = ev.id

\* A method without a handler unwound while a native frame was the current
\* frame: two frames were popped.
C2_Witness ==
    /\ ev.type = "unwind" /\ ev.native
    /\ Len(frames[ev.thread]) = ev.n - 2

(***************************************************************************)
(* Properties of class initialization                                      *)
(***************************************************************************)
StartsClinitOfSubclass ==
    /\ ev.type = "clinit_start"
    /\ ev.id # 0
    /\ get_class(ma, ev.cls).kind = "instance"

\* C3 as stated: when the <clinit> of a class begins, its superclass is
\* Initialized, also when the call came from inside a running <clinit>.
C3_SuperInitialized ==
    StartsClinitOfSubclass => get_class(ma, ev.id).state = Initialized

\* C3 (amended): when the <clinit> of a class begins, its superclass is
\* Initializing or Initialized; it is Initialized unless ensure_initialized
\* found the superclass already Initializing (the call came from inside the
\* superclass's own initialization, or its <clinit> had ended with an
\* exception, which leaves the state Initializing).
C3_SuperInitializedOrInProgress ==
    StartsClinitOfSubclass =>
        /\ get_class(ma, ev.id).state \in {Initializing, Initialized}
        /\ ev.seen # Initializing => get_class(ma, ev.id).state = Initialized

\* Sub's <clinit> begins inside Base's running <clinit>: Base is Initializing.
C3_Witness ==
    /\ StartsClinitOfSubclass
    /\ ev.name = "Sub"
    /\ ev.seen = Initializing
    /\ get_class(ma, ev.id).state = Initializing
    /\ \E i \in 1..Len(frames[ev.thread]) :
          frames[ev.thread][i].method_id = get_class(ma, ev.id).clinit

\* C4 (single thread): the <clinit> of a class is invoked at most once, and a
\* call of ensure_initialized that finds the class Initializing or Initialized
\* returns Ok without invoking anything: no frame is pushed, no state changes.
C4_ClinitAtMostOnce ==
    /\ \A n \in DOMAIN hist.clinit_count : hist.clinit_count[n] <= 1
    /\ ev.type = "ensure_skip" =>
          /\ ev.seen \in {Initializing, Initialized}
          /\ get_class(ma, ev.cls).state = ev.seen
          /\ ctl[ev.thread].sig = OkSig(<<>>)

\* A second request for Base while Base's <clinit> has been invoked once and
\* Base is still Initializing.
C4_Witness ==
    /\ ev.type = "ensure_skip" /\ ev.name = "Base" /\ ev.seen = Initializing
    /\ Count(hist.clinit_count, "Base") = 1

\* C5 (monotonic state): under any interleaving of callers the init state of a
\* class only moves forward: Loaded, Linked, Initializing, Initialized.
C5_StateMonotonic ==
    [][\A c \in 1..Len(ma.classes) : ma'.classes[c].state >= ma.classes[c].state]_vars

\* C6 (single initializer): of two threads that call ensure_initialized on a
\* class, exactly one makes the transition to Initializing, and the <clinit>
\* runs at most once.
C6_SingleInitializer ==
    \A c \in 1..Len(ma.classes) :
       /\ Count(hist.transitions, ma.classes[c].name) <= 1
       /\ Count(hist.clinit_count, ma.classes[c].name) <= 1

\* Two threads have each invoked Base's <clinit>.
C6_Witness ==
    Count(hist.clinit_count, "Base") = 2

\* C9 (initialized before use): when an object is allocated, a static field is
\* read or written, or the body of a static method starts, the class
\* instantiated, declaring the field, or declaring the method is Initializing
\* or Initialized.
C9_InitializedBeforeUse ==
    ev.type \in {"alloc", "static_read", "static_write", "static_body_start"} =>
        get_class(ma, ev.cls).state \in {Initializing, Initialized}

(***************************************************************************)
(* Properties of the method area (checked under SpecLoad)                  *)
(***************************************************************************)

\* C7 (ID stability): a successful get_class_id_or_load(name) returns the id
\* that the first successful get_class_id_or_load(name) returned, whatever
\* loads, successful or failing, happened in between.
C7_IdStability ==
    (ev.type = "load" /\ ev.ok) => ev.id = hist.first[ev.name]

\* A repeated successful load of a name, after a failing load of another name.
C7_Witness ==
    ev.type = "load" /\ ev.ok /\ ev.again /\ ev.after_fail

\* The keys a class declares: the keys of the methods pushed for it.
DeclaredKeys(m, class_id) ==
    {<<m.methods[i].name, m.methods[i].desc>> :
        i \in {j \in 1..Len(m.methods) : m.methods[j].class_id = class_id}}

\* Every id stored in the method area is a 1-based index of its vector and
\* denotes the entry it was returned for.
IdsDenote(m) ==
    /\ \A n \in DOMAIN m.class_name_to_index :
          /\ m.class_name_to_index[n] \in 1..Len(m.classes)
          /\ m.classes[m.class_name_to_index[n]].name = n
    /\ \A i \in 1..Len(m.methods) :
          /\ m.methods[i].class_id \in 1..Len(m.classes)
          /\ m.methods[i].descriptor_id \in 1..Len(m.method_descriptors)
          /\ m.method_descriptors[m.methods[i].descriptor_id] = m.methods[i].desc
    /\ \A c \in 1..Len(m.classes) :
          /\ m.classes[c].clinit # 0 =>
                /\ m.classes[c].clinit \in 1..Len(m.methods)
                /\ m.methods[m.classes[c].clinit].class_id = c
                /\ m.methods[m.classes[c].clinit].name = clinit_sym
          /\ \A k \in DOMAIN m.classes[c].declared :
                /\ m.classes[c].declared[k] \in 1..Len(m.methods)
                /\ m.methods[m.classes[c].declared[k]].class_id = c
                /\ m.methods[m.classes[c].declared[k]].name = k[1]
          /\ \A f \in 1..Len(m.classes[c].instance_fields) :
                m.classes[c].instance_fields[f].descriptor_id
                    \in 1..Len(m.field_descriptors)

\* C8 (dense ids): every step keeps the entries already in the vectors of
\* classes, methods and descriptors where they are (none removed or replaced),
\* every id it hands out is a 1-based index (never 0) that denotes the entry it
\* was returned for, and the id of a name indexed by the step is greater than
\* every class id that existed before the step.
C8_DenseIds ==
    [][/\ Len(ma'.classes) >= Len(ma.classes)
       /\ \A c \in 1..Len(ma.classes) :
             /\ ma'.classes[c].name = ma.classes[c].name
             /\ ma'.classes[c].kind = ma.classes[c].kind
             /\ ma'.classes[c].super = ma.classes[c].super
       /\ SubSeq(ma'.methods, 1, Len(ma.methods)) = ma.methods
       /\ SubSeq(ma'.method_descriptors, 1, Len(ma.method_descriptors))
             = ma.method_descriptors
       /\ SubSeq(ma'.field_descriptors, 1, Len(ma.field_descriptors))
             = ma.field_descriptors
       /\ IdsDenote(ma')
       /\ \A n \in DOMAIN ma'.class_name_to_index :
             IF n \in DOMAIN ma.class_name_to_index
             THEN ma'.class_name_to_index[n] = ma.class_name_to_index[n]
             ELSE ma'.class_name_to_index[n] > Len(ma.classes)]_vars

\* A load that pushed several classes (the class, its superclass, an interface).
C8_Witness ==
    ev.type = "load" /\ ev.ok /\ ev.n >= 3 /\ Len(ma.methods) > 8

IsLinkedInstance(m, c) ==
    m.classes[c].kind = "instance" /\ m.classes[c].state >= Linked
        /\ m.classes[c].super # 0

\* C10 (vtable inheritance): for every linked instance class C with superclass
\* S, every key of S's vtable_index has the same slot number in C's
\* vtable_index; if C does not declare the key the slot holds the method S's
\* slot holds; and the keys C adds have slots after all of S's slots.
C10_VtableInheritance ==
    \A c \in 1..Len(ma.classes) :
       IsLinkedInstance(ma, c) =>
          LET C == ma.classes[c]
              S == ma.classes[C.super]
          IN /\ \A k \in DOMAIN S.vtable_index :
                   /\ k \in DOMAIN C.vtable_index
                   /\ C.vtable_index[k] = S.vtable_index[k]
                   /\ k \notin DeclaredKeys(ma, c) =>
                         C.vtable[C.vtable_index[k] + 1] = S.vtable[S.vtable_index[k] + 1]
             /\ \A k \in DOMAIN C.vtable_index \ DOMAIN S.vtable_index :
                   C.vtable_index[k] >= Len(S.vtable)

\* A linked class that overrides one inherited method, inherits another one
\* unchanged and adds a new virtual method.
C10_Witness ==
    \E c \in 1..Len(ma.classes) :
       /\ IsLinkedInstance(ma, c)
       /\ LET C == ma.classes[c]
              S == ma.classes[C.super]
          IN /\ \E k \in DOMAIN S.vtable_index :
                   k \in DeclaredKeys(ma, c)
                      /\ C.vtable[C.vtable_index[k] + 1] # S.vtable[S.vtable_index[k] + 1]
             /\ \E k \in DOMAIN S.vtable_index : k \notin DeclaredKeys(ma, c)
             /\ \E k \in DOMAIN C.vtable_index : k \notin DOMAIN S.vtable_index

\* C11 (vtable membership): no entry of the vtable of a linked instance class
\* is a static method, a constructor <init> or <clinit>, whether the entry
\* comes from the class's own methods, from its superclass, or was appended
\* while the methods of its interfaces were resolved.
C11_NoStaticOrInitInVtable ==
    \A c \in 1..Len(ma.classes) :
       (ma.classes[c].kind = "instance" /\ ma.classes[c].state >= Linked) =>
          \A i \in 1..Len(ma.classes[c].vtable) :
             LET method == get_method(ma, ma.classes[c].vtable[i])
             IN /\ ~method.static
                /\ method.name # init_sym
                /\ method.name # clinit_sym

\* A linked instance class that implements an interface declaring a static
\* method with a body.
C11_Witness ==
    \E c \in 1..Len(ma.classes) :
       /\ ma.classes[c].kind = "instance" /\ ma.classes[c].state >= Linked
       /\ \E i \in ma.classes[c].interfaces :
             \E k \in DOMAIN ma.classes[i].declared :
                LET method == get_method(ma, ma.classes[i].declared[k])
                IN method.static /\ ~method.abstract

\* The interfaces a class implements: those recorded for it (its own and its
\* superclasses') and, transitively, the interfaces those extend.
RECURSIVE ImplementedInterfaces(_, _)
ImplementedInterfaces(m, S) ==
    LET next == S \cup UNION {m.classes[i].interfaces : i \in S}
    IN IF next = S THEN S ELSE ImplementedInterfaces(m, next)

\* C12 (itable completeness): for every linked non-abstract instance class,
\* every method declared by every interface it implements - directly, through
\* its superclass or through a superinterface - has an itable entry, and that
\* entry is the class's vtable entry for the method's key; so no abstract
\* interface method without a vtable entry is left in a class that reached
\* state Linked.
C12_ItableComplete ==
    \A c \in 1..Len(ma.classes) :
       LET C == ma.classes[c]
       IN (C.kind = "instance" /\ C.state >= Linked /\ ~C.abstract) =>
             \A i \in ImplementedInterfaces(ma, C.interfaces) :
                \A k \in DOMAIN ma.classes[i].declared :
                   /\ k \in DOMAIN C.itable
                   /\ k \in DOMAIN C.vtable_index
                   /\ C.itable[k] = C.vtable[C.vtable_index[k] + 1]

\* A linked non-abstract class one of whose interfaces extends an interface
\* that declares an abstract method.
C12_Witness ==
    \E c \in 1..Len(ma.classes) :
       LET C == ma.classes[c]
       IN /\ C.kind = "instance" /\ C.state >= Linked /\ ~C.abstract
          /\ \E i \in C.interfaces : \E j \in ma.classes[i].interfaces :
                \E k \in DOMAIN ma.classes[j].declared :
                   get_method(ma, ma.classes[j].declared[k]).abstract

\* C13 (field layout): for every linked instance class, every instance field
\* (declared or inherited) has an offset that is a multiple of its byte size,
\* ends inside the instance (offset + size <= instance_size), and no two
\* fields of the class occupy a common byte.
C13_FieldLayout ==
    \A c \in 1..Len(ma.classes) :
       LET C == ma.classes[c]
           F == C.instance_fields
       IN (C.kind = "instance" /\ C.state >= Linked) =>
             /\ \A i \in 1..Len(F) :
                   /\ F[i].size \in {1, 2, 4, 8}
                   /\ F[i].offset % F[i].size = 0
                   /\ F[i].offset + F[i].size <= C.instance_size
             /\ \A i, j \in 1..Len(F) :
                   i < j => \/ F[i].offset + F[i].size <= F[j].offset
                            \/ F[j].offset + F[j].size <= F[i].offset

\* A linked class with inherited and declared fields of all four sizes, where
\* some field had to be moved up to its alignment (a gap precedes it).
C13_Witness ==
    \E c \in 1..Len(ma.classes) :
       LET C == ma.classes[c]
           F == C.instance_fields
       IN /\ C.kind = "instance" /\ C.state >= Linked
          /\ {F[i].size : i \in 1..Len(F)} = {1, 2, 4, 8}
          /\ \E i \in 1..Len(F) : F[i].declaring_class # c
          /\ \E i \in 2..Len(F) : F[i].offset > F[i - 1].offset + F[i - 1].size

\* get_instance_field / get_instance_field_by_name: the field a key (or a
\* name) resolves to in a class.
get_instance_field(class, field_key) ==
    class.instance_fields[class.instance_fields_offset_map[field_key] + 1]

get_instance_field_by_name(class, field_name) ==
    class.instance_fields[class.instance_fields_name_offset_map[field_name] + 1]

\* C14 (superclass-first, stable layout): for every linked instance class C
\* with superclass S, C's instance-field list starts with S's list (same
\* entries, same offsets), instance_size(C) >= instance_size(S), and every key
\* and every name that resolves on S resolves on C to the same offset or to a
\* field C itself declares.
C14_SuperclassFirst ==
    \A c \in 1..Len(ma.classes) :
       IsLinkedInstance(ma, c) =>
          LET C == ma.classes[c]
              S == ma.classes[C.super]
          IN /\ Len(C.instance_fields) >= Len(S.instance_fields)
             /\ SubSeq(C.instance_fields, 1, Len(S.instance_fields)) = S.instance_fields
             /\ C.instance_size >= S.instance_size
             /\ \A k \in DOMAIN S.instance_fields_offset_map :
                   /\ k \in DOMAIN C.instance_fields_offset_map
                   /\ \/ get_instance_field(C, k).offset = get_instance_field(S, k).offset
                      \/ get_instance_field(C, k).declaring_class = c
             /\ \A n \in DOMAIN S.instance_fields_name_offset_map :
                   /\ n \in DOMAIN C.instance_fields_name_offset_map
                   /\ \/ get_instance_field_by_name(C, n).offset
                            = get_instance_field_by_name(S, n).offset
                      \/ get_instance_field_by_name(C, n).declaring_class = c

\* A linked class whose superclass has instance fields, that keeps one
\* inherited key at its offset and redeclares another one.
C14_Witness ==
    \E c \in 1..Len(ma.classes) :
       /\ IsLinkedInstance(ma, c)
       /\ LET C == ma.classes[c]
              S == ma.classes[C.super]
          IN /\ S.instance_fields # <<>>
             /\ \E k \in DOMAIN S.instance_fields_offset_map :
                   get_instance_field(C, k).declaring_class = c
             /\ \E k \in DOMAIN S.instance_fields_offset_map :
                   /\ get_instance_field(C, k).declaring_class # c
                   /\ get_instance_field(C, k).offset = get_instance_field(S, k).offset

\* The loaded classes assignability is asked about: instance classes,
\* interfaces, primitive-array classes and object-array classes.
LoadedClasses(m) ==
    {c \in 1..Len(m.classes) :
        m.classes[c].kind \in {"instance", "interface", "primarray", "objarray"}}

\* The pairs <<a, b>> of loaded classes for which is_subclass_of(a, b) is true.
SubclassPairs(m) ==
    UNION {{<<a, b>> : b \in {x \in LoadedClasses(m) : is_subclass_of(m, a, x) = "true"}} :
              a \in LoadedClasses(m)}

\* C15 (assignability): over all loaded classes is_subclass_of(a, a) is true,
\* and whenever is_subclass_of(a, b) and is_subclass_of(b, c) are true,
\* is_subclass_of(a, c) is true.
C15_AssignabilityReflexiveTransitive ==
    \A R \in {SubclassPairs(ma)} :
       /\ \A a \in LoadedClasses(ma) : <<a, a>> \in R
       /\ \A p, q \in R : p[2] = q[1] => <<p[1], q[2]>> \in R

\* Three distinct object-array classes in a chain, and an instance class that
\* is assignable to an interface different from itself.
C15_Witness ==
    \A R \in {SubclassPairs(ma)} :
       /\ \E p, q \in R :
             /\ p[2] = q[1] /\ p[1] # p[2] /\ q[1] # q[2]
             /\ \A x \in {p[1], p[2], q[2]} : ma.classes[x].kind = "objarray"
       /\ \E p \in R : /\ ma.classes[p[1]].kind = "instance"
                        /\ ma.classes[p[2]].kind = "interface"
       /\ \E p \in R : /\ ma.classes[p[1]].kind = "primarray"
                        /\ ma.classes[p[2]].kind = "instance"

(***************************************************************************)
(* Instance invocation: handle_invokevirtual and handle_invokeinterface on *)
(* a frame whose operand stack is given.  The invoked methods have the     *)
(* body `return`, so invoke_method_internal pushes the callee's frame,     *)
(* runs it and pops it again.                                              *)
(***************************************************************************)
Long(v) == [tag |-> "Long", v |-> v]
Null == [tag |-> "Null", v |-> 0]

\* FrameStack::peek_operand_at(i): the cell i below the top of the current
\* frame's operand stack; an Err when the stack is too short.
peek_operand_at(fr, i) ==
    LET ops == Top(fr).operands
    IN IF i < 0 \/ i >= Len(ops) THEN [ok |-> FALSE, value |-> Null]
       ELSE [ok |-> TRUE, value |-> ops[Len(ops) - i]]

\* Value::as_obj_ref
as_obj_ref(value) ==
    CASE value.tag = "Ref" -> [ok |-> TRUE, err |-> "", ref |-> value.v]
      [] value.tag = "Null" -> [ok |-> FALSE, err |-> "NullPointerException", ref |-> 0]
      [] OTHER -> [ok |-> FALSE, err |-> "Todo", ref |-> 0]

\* InstanceClass::get_vtable_method_id; 0 is the NoSuchMethodError.
get_vtable_method_id(class, key) ==
    IF key \in DOMAIN class.vtable_index
    THEN class.vtable[class.vtable_index[key] + 1] ELSE 0

\* InstanceClass::get_interface_method_id: the itable, then the vtable.
get_interface_method_id(class, key) ==
    IF key \in DOMAIN class.itable THEN class.itable[key]
    ELSE get_vtable_method_id(class, key)

\* The count operand of an invokeinterface instruction as the class file
\* carries it: one for the receiver plus the argument slots, two for each
\* long or double.
invokeinterface_count(desc) ==
    CASE desc = "(I)V" -> 2
      [] desc \in {"(J)V", "(D)V"} -> 3
      [] desc = "(JI)V" -> 4
      [] OTHER -> 1

\* The part the two handlers share once the receiver cell is chosen:
\* as_obj_ref, the class of the receiver, the lookup, prepare_method_args and
\* invoke_method_internal.  depth is the cell the handler inspected.
Dispatch(t, type, method_key, depth, interface) ==
    LET cell == peek_operand_at(frames[t], depth)
        recv == as_obj_ref(cell.value)
        class == get_class(ma, Heap_get_class_id(heap, recv.ref))
        target == IF interface THEN get_interface_method_id(class, method_key)
                  ELSE get_vtable_method_id(class, method_key)
        pa == prepare_method_args(frames[t], args_count(get_method(ma, target)))
        pf == push_frame(pa.frames, JavaFrame_new(target, pa.args))
        err == CASE ~cell.ok -> "Todo"
                 [] ~recv.ok -> recv.err
                 [] class.kind # "instance" -> "Todo"
                 [] target = 0 -> "NoSuchMethodError"
                 [] OTHER -> "Todo"
        \* the objects whose header the handler read
        touched == IF cell.ok /\ recv.ok THEN {recv.ref} ELSE {}
        e == [NoEv EXCEPT !.type = type, !.name = method_key[1], !.n = depth,
                          !.seen = params_len(method_key[2]), !.thread = t]
    IN /\ calls' = calls + 1
       \* handle_invokevirtual asks for the descriptor's id before it looks
       \* at the stack; handle_invokeinterface does not.
       /\ ma' = IF interface THEN ma
                ELSE get_or_new_method_descriptor_id(ma, method_key[2]).ma
       /\ UNCHANGED <<classpath, heap, ctl, result, hist>>
       /\ IF ~cell.ok \/ ~recv.ok \/ class.kind # "instance" \/ target = 0
             \/ Len(Top(frames[t]).operands) < args_count(get_method(ma, target))
             \/ ~pf.ok
          THEN /\ frames' = frames
               /\ ev' = [e EXCEPT !.ok = FALSE, !.inp = <<err, touched>>]
          ELSE /\ frames' = [frames EXCEPT ![t] = pop_frame(pf.frames)]
               /\ ev' = [e EXCEPT !.ok = TRUE, !.id = target, !.ref = recv.ref,
                                  !.stack = pa.args, !.inp = <<"", touched>>]

\* handle_invokevirtual: the receiver is looked for params.len() cells below
\* the top.
Invoke_virtual(t, method_key) ==
    /\ calls < MaxCalls
    /\ LET arg_count == params_len(method_key[2]) + 1
       IN Dispatch(t, "invokevirtual", method_key, arg_count - 1, FALSE)

\* handle_invokeinterface: the receiver is looked for count - 1 cells below
\* the top, count being the instruction's operand.
Invoke_interface(t, method_key, count) ==
    /\ calls < MaxCalls
    /\ Dispatch(t, "invokeinterface", method_key, count - 1, TRUE)

VirtualKeys == {<<"vj", "(J)V">>, <<"vji", "(JI)V">>, <<"vi", "(I)V">>, <<"v0", "()V">>}

InterfaceKeys == {<<"ij", "(J)V">>, <<"ii", "(I)V">>, <<"i0", "()V">>, <<"idf", "(D)V">>}

MaxOperands == 3

\* The cells a caller can have pushed: the two objects of the heap, null, an
\* int and a long.
OperandCells == {Ref(16), Ref(32), Null, Integer(1), Long(5)}

OperandStacks == UNION {[1..n -> OperandCells] : n \in 0..MaxOperands}

\* A Recv object and an Object object are allocated, and thread 1 is inside
\* Recv.caller with some operand stack.
InitInvoke ==
    /\ classpath = ClassPathOf("plain", "override")
    /\ \E r \in {get_class_id_or_load(preload_basic_classes(MethodArea_new(classpath)),
                                       "Recv", "asc")} :
       \E a \in {alloc_instance(Heap_new,
                                 get_class(r.ma, r.id).instance_size, r.id)} :
       \E b \in {alloc_instance(a.heap, 0, r.ma.java_lang_object_id)} :
       \E ops \in OperandStacks :
          /\ ma = r.ma
          /\ heap = b.heap
          /\ frames = [t \in Threads |->
                         IF t = 1
                         THEN <<[JavaFrame_new(
                                    get_static_method_id_rec(r.ma, r.id, <<"caller", "()V">>),
                                    <<>>) EXCEPT !.operands = ops]>>
                         ELSE <<>>]
    /\ ctl = [t \in Threads |-> [acts |-> <<>>, sig |-> NoSig]]
    /\ result = [t \in Threads |-> "none"]
    /\ calls = 0
    /\ ev = NoEv
    /\ hist = [first |-> EmptyMap, failed_since |-> {},
               clinit_count |-> EmptyMap, transitions |-> EmptyMap, allocs |-> <<>>]

NextInvoke ==
    \/ \E k \in VirtualKeys : Invoke_virtual(1, k)
    \/ \E k \in InterfaceKeys : Invoke_interface(1, k, invokeinterface_count(k[2]))

SpecInvoke == InitInvoke /\ [][NextInvoke]_vars

\* C16 (invocation arity): the cell invokevirtual and invokeinterface inspect
\* for the receiver lies exactly as many cells below the top of the operand
\* stack as the method's descriptor has parameters (a long or double counting
\* once), and when the call goes through it is the cell prepare_method_args
\* delivers as argument 0.
C16_ReceiverCell ==
    ev.type \in {"invokevirtual", "invokeinterface"} =>
       /\ ev.n = ev.seen
       /\ ev.ok => /\ Len(ev.stack) = ev.n + 1
                   /\ ev.stack[1] = Ref(ev.ref)

\* An invokeinterface of a method with a long parameter on a stack that
\* holds the receiver and the long.
C16_Witness ==
    /\ ev.type = "invokeinterface" /\ ev.name = "ij"
    /\ LET ops == Top(frames[1]).operands
       IN Len(ops) >= 2 /\ ops[Len(ops)].tag = "Long" /\ ops[Len(ops) - 1] = Ref(16)

(***************************************************************************)
(* The heap's bytes.  Integers are stored little-endian in two's           *)
(* complement; a long or a double is carried as <<high, low>>, its two     *)
(* 32-bit halves, and a float as its 32 bits.                              *)
(***************************************************************************)
Float(v) == [tag |-> "Float", v |-> v]
Double(v) == [tag |-> "Double", v |-> v]

\* AllocationType, in declaration order; `as u8` gives the position.
AllocationTypes ==
    <<"Boolean", "Byte", "Short", "Char", "Int", "Long", "Float", "Double",
      "Reference">>

AllocationType_as_u8(ty) ==
    CHOOSE i \in 0..(Len(AllocationTypes) - 1) : AllocationTypes[i + 1] = ty

\* AllocationType::try_from(u8)
AllocationType_try_from(b) ==
    IF b < Len(AllocationTypes) THEN [ok |-> TRUE, ty |-> AllocationTypes[b + 1]]
    ELSE [ok |-> FALSE, ty |-> ""]

\* AllocationType::byte_size
AllocationType_byte_size(ty) ==
    CASE ty \in {"Boolean", "Byte"} -> 1
      [] ty \in {"Short", "Char"} -> 2
      [] ty \in {"Int", "Float"} -> 4
      [] OTHER -> 8

\* the bytes of an i32
i32_to_le(v) ==
    <<v % 256, (v \div 256) % 256, (v \div 65536) % 256, (v \div 16777216) % 256>>

i8_from(b) == IF b >= 128 THEN b - 256 ELSE b

\* the i32 of four bytes
le_to_i32(b) == b[1] + 256 * b[2] + 65536 * b[3] + 16777216 * i8_from(b[4])

\* a raw read of n bytes at addr
read_bytes(mem, addr, n) == [i \in 1..n |-> mem[addr + i - 1]]

\* a raw write of bytes at addr
write_bytes(mem, addr, bytes) ==
    [a \in DOMAIN mem |->
        IF a >= addr /\ a < addr + Len(bytes) THEN bytes[a - addr + 1] ELSE mem[a]]

\* Heap::write_field: the match on (value, field_type)
write_field(h, heap_ref, field_offset, value, field_type) ==
    LET target_ptr == heap_ref + ObjectHeaderSize + field_offset
        put(bytes) == [ok |-> TRUE,
                       heap |-> [h EXCEPT !.mem = write_bytes(@, target_ptr, bytes)]]
    IN CASE value.tag = "Integer" /\ field_type = "Boolean" ->
              put(<<IF value.v # 0 THEN 1 ELSE 0>>)
         [] value.tag = "Integer" /\ field_type = "Byte" ->
              put(<<value.v % 256>>)
         [] value.tag = "Integer" /\ field_type \in {"Short", "Char"} ->
              put(<<value.v % 256, (value.v \div 256) % 256>>)
         [] value.tag = "Integer" /\ field_type = "Int" ->
              put(i32_to_le(value.v))
         [] value.tag = "Long" /\ field_type = "Long" ->
              put(i32_to_le(value.v[2]) \o i32_to_le(value.v[1]))
         [] value.tag = "Float" /\ field_type = "Float" ->
              put(i32_to_le(value.v))
         [] value.tag = "Double" /\ field_type = "Double" ->
              put(i32_to_le(value.v[2]) \o i32_to_le(value.v[1]))
         [] value.tag = "Ref" /\ field_type = "Reference" ->
              put(i32_to_le(value.v) \o <<0, 0, 0, 0>>)
         [] value.tag = "Null" /\ field_type = "Reference" ->
              put(<<0, 0, 0, 0, 0, 0, 0, 0>>)
         [] OTHER -> [ok |-> FALSE, heap |-> h]

\* Heap::read_field: the match on field_type
read_field(h, heap_ref, field_offset, field_type) ==
    LET source_ptr == heap_ref + ObjectHeaderSize + field_offset
        b == read_bytes(h.mem, source_ptr, AllocationType_byte_size(field_type))
    IN CASE field_type = "Boolean" -> Integer(IF b[1] # 0 THEN 1 ELSE 0)
         [] field_type = "Byte" -> Integer(i8_from(b[1]))
         [] field_type = "Short" -> Integer(b[1] + 256 * i8_from(b[2]))
         [] field_type = "Char" -> Integer(b[1] + 256 * b[2])
         [] field_type = "Int" -> Integer(le_to_i32(b))
         [] field_type = "Long" ->
              Long(<<le_to_i32(SubSeq(b, 5, 8)), le_to_i32(SubSeq(b, 1, 4))>>)
         [] field_type = "Float" -> Float(le_to_i32(b))
         [] field_type = "Double" ->
              Double(<<le_to_i32(SubSeq(b, 5, 8)), le_to_i32(SubSeq(b, 1, 4))>>)
         [] OTHER ->
              IF \A i \in 1..8 : b[i] = 0 THEN Null ELSE Ref(le_to_i32(SubSeq(b, 1, 4)))

\* Heap::alloc_array_internal: the length and the type byte follow the header.
alloc_array_internal(h, class_id, length, allocation_type) ==
    IF length < 0
    THEN [ok |-> FALSE, err |-> "Todo(Negative array length)", heap |-> h, ref |-> 0]
    ELSE LET element_size == AllocationType_byte_size(allocation_type)
             array_data_size == 8 + length * element_size
             r == alloc_raw(h, array_data_size)
         IN IF ~r.ok THEN [ok |-> FALSE, err |-> r.err, heap |-> h, ref |-> 0]
            ELSE [ok |-> TRUE, err |-> "",
                  heap |-> [r.heap EXCEPT
                     !.objs = MapPut(@, r.ref,
                                 [class_id |-> class_id,
                                  size |-> ObjectHeaderSize + array_data_size,
                                  is_array |-> TRUE]),
                     !.mem = write_bytes(
                                write_bytes(@, r.ref + ObjectHeaderSize,
                                            i32_to_le(length)),
                                r.ref + ObjectHeaderSize + 4,
                                <<AllocationType_as_u8(allocation_type)>>)],
                  ref |-> r.ref]

\* Heap::alloc_primitive_array
alloc_primitive_array(h, class_id, array_type, length) ==
    alloc_array_internal(h, class_id, length, array_type)

\* Heap::alloc_object_array
alloc_object_array(h, class_id, length) ==
    alloc_array_internal(h, class_id, length, "Reference")

\* Heap::is_array
Heap_is_array(h, heap_ref) == h.objs[heap_ref].is_array

\* Heap::get_array_length
get_array_length(h, heap_ref) ==
    le_to_i32(read_bytes(h.mem, heap_ref + ObjectHeaderSize, 4))

\* Heap::get_allocation_type
get_allocation_type(h, heap_ref) ==
    AllocationType_try_from(h.mem[heap_ref + ObjectHeaderSize + 4])

\* Heap::write_array_element
write_array_element(h, heap_ref, index, value) ==
    LET length == get_array_length(h, heap_ref)
        element_type == get_allocation_type(h, heap_ref)
    IN IF index < 0 \/ index >= length \/ ~element_type.ok
       THEN [ok |-> FALSE, heap |-> h]
       ELSE write_field(h, heap_ref, 8 + index * AllocationType_byte_size(element_type.ty),
                        value, element_type.ty)

\* Heap::read_array_element
read_array_element(h, heap_ref, index) ==
    LET length == get_array_length(h, heap_ref)
        element_type == get_allocation_type(h, heap_ref)
    IN IF index < 0 \/ index >= length \/ ~element_type.ok
       THEN [ok |-> FALSE, val |-> Null]
       ELSE [ok |-> TRUE,
             val |-> read_field(h, heap_ref, 8 + index * AllocationType_byte_size(element_type.ty),
                                element_type.ty)]

\* A copy that moves the bytes one at a time from the lowest address up.
RECURSIVE copy_forward(_, _, _, _)
copy_forward(mem, src_ptr, dest_ptr, count) ==
    IF count <= 0 THEN mem
    ELSE copy_forward(
            IF dest_ptr \in DOMAIN mem /\ src_ptr \in DOMAIN mem
            THEN [mem EXCEPT ![dest_ptr] = mem[src_ptr]] ELSE mem,
            src_ptr + 1, dest_ptr + 1, count - 1)

\* std::ptr::copy: the destination receives the bytes the source held before
\* the call, whether or not the two ranges overlap.  Addresses outside the
\* mapping are left out.
ptr_copy(mem, src_ptr, dest_ptr, count) ==
    [a \in DOMAIN mem |->
        IF a >= dest_ptr /\ a < dest_ptr + count /\ (src_ptr + (a - dest_ptr)) \in DOMAIN mem
        THEN mem[src_ptr + (a - dest_ptr)]
        ELSE mem[a]]

\* i32 addition of two non-negative operands: the sum if it fits, or the
\* wrapped sum of a build without overflow checks.
add_i32(a, b) ==
    IF a > I32Max - b
    THEN [overflow |-> TRUE, v |-> ((a - I32Max) - 1) + b + I32Min]
    ELSE [overflow |-> FALSE, v |-> a + b]

\* Heap::copy_primitive_slice.  The two sums of the bounds check are i32
\* additions; on overflow, a build with overflow checks panics
\* (on_overflow = "panic") and a build without them wraps.  A wrapped sum is
\* negative, so the check passes and the copy runs over a range that leaves
\* the arrays: it moves the bytes that lie inside the mapping
\* (on_overflow = "copied") or it is stopped by a fault (on_overflow = "fault").
copy_primitive_slice(h, src, src_pos, dest, dest_pos, length, on_overflow) ==
    LET src_type == get_allocation_type(h, src)
        dest_type == get_allocation_type(h, dest)
        src_array_len == get_array_length(h, src)
        dest_array_len == get_array_length(h, dest)
        neg == src_pos < 0 \/ dest_pos < 0 \/ length < 0
        s1 == add_i32(src_pos, length)
        s2 == add_i32(dest_pos, length)
        element_size == AllocationType_byte_size(src_type.ty)
        src_ptr == src + ObjectHeaderSize + 8 + src_pos * element_size
        dest_ptr == dest + ObjectHeaderSize + 8 + dest_pos * element_size
        \* length * element_size bytes, cut where the mapping ends
        elems == IF length > HeapCapacity THEN HeapCapacity ELSE length
        moved == [kind |-> "ok",
                  heap |-> [h EXCEPT !.mem = ptr_copy(@, src_ptr, dest_ptr,
                                                      elems * element_size)]]
    IN IF ~src_type.ok \/ ~dest_type.ok THEN [kind |-> "Todo", heap |-> h]
       ELSE IF neg THEN [kind |-> "ArrayIndexOutOfBoundsException", heap |-> h]
       ELSE IF s1.overflow /\ on_overflow = "panic" THEN [kind |-> "panic", heap |-> h]
       ELSE IF s1.v > src_array_len
            THEN [kind |-> "ArrayIndexOutOfBoundsException", heap |-> h]
       ELSE IF s2.overflow /\ on_overflow = "panic" THEN [kind |-> "panic", heap |-> h]
       ELSE IF s2.v > dest_array_len
            THEN [kind |-> "ArrayIndexOutOfBoundsException", heap |-> h]
       ELSE IF (s1.overflow \/ s2.overflow) /\ on_overflow = "fault"
            THEN [kind |-> "fault", heap |-> h]
       ELSE moved

(***************************************************************************)
(* System.arraycopy over two int arrays                                    *)
(***************************************************************************)
MaxHeapOps == 1        \* heap operations per run

RECURSIVE fill_array(_, _, _, _)
fill_array(h, heap_ref, values, i) ==
    IF i > Len(values) THEN h
    ELSE fill_array(write_array_element(h, heap_ref, i - 1, Integer(values[i])).heap,
                    heap_ref, values, i + 1)

ArrayContents == {<<11, 22, 33, 44>>, <<-1, 0, I32Min, I32Max>>}

\* an int[4] with contents and a fresh int[3]
InitCopy ==
    /\ classpath = ClassPathOf("plain", "override")
    /\ \E r \in {get_class_id_or_load(preload_basic_classes(MethodArea_new(classpath)),
                                       "[I", "asc")} :
       \E a \in {alloc_primitive_array(Heap_new, r.id, "Int", 4)} :
       \E b \in {alloc_primitive_array(a.heap, r.id, "Int", 3)} :
       \E values \in ArrayContents :
          /\ ma = r.ma
          /\ heap = fill_array(b.heap, a.ref, values, 1)
    /\ frames = [t \in Threads |-> <<>>]
    /\ ctl = [t \in Threads |-> [acts |-> <<>>, sig |-> NoSig]]
    /\ result = [t \in Threads |-> "none"]
    /\ calls = 0
    /\ ev = NoEv
    /\ hist = [first |-> EmptyMap, failed_since |-> {},
               clinit_count |-> EmptyMap, transitions |-> EmptyMap, allocs |-> <<>>]

\* java_lang_system_arraycopy: both operands are arrays, a zero length returns
\* at once, anything else goes to copy_primitive_slice.  ev.native tells
\* whether copy_primitive_slice was called, ev.name how it ended.
System_arraycopy(src, src_pos, dest, dest_pos, length, on_overflow) ==
    /\ calls < MaxHeapOps
    /\ LET arrays == Heap_is_array(heap, src) /\ Heap_is_array(heap, dest)
           called == arrays /\ length # 0
           r == IF ~arrays THEN [kind |-> "ArrayStoreException", heap |-> heap]
                ELSE IF length = 0 THEN [kind |-> "ok", heap |-> heap]
                ELSE copy_primitive_slice(heap, src, src_pos, dest, dest_pos, length,
                                          on_overflow)
       IN /\ heap' = r.heap
          /\ ev' = [NoEv EXCEPT !.type = "arraycopy", !.name = r.kind,
                                !.ok = (r.kind = "ok"), !.native = called,
                                !.inp = <<src, src_pos, dest, dest_pos, length>>]
    /\ calls' = calls + 1
    /\ UNCHANGED <<classpath, ma, frames, ctl, result, hist>>

SrcPositions == {-1, 0, 1}
DestPositions == {-1, 0, 1, 2}
CopyLengths == {-1, 0, 1, 2, 3, I32Max}

\* The outcome of an overflow is only drawn for a length that can overflow.
NextCopy ==
    \E src \in DOMAIN heap.objs, dest \in DOMAIN heap.objs,
       src_pos \in SrcPositions, dest_pos \in DestPositions,
       length \in CopyLengths :
       \E on_overflow \in IF length = I32Max THEN {"panic", "copied", "fault"}
                           ELSE {"panic"} :
          System_arraycopy(src, src_pos, dest, dest_pos, length, on_overflow)

SpecCopy == InitCopy /\ [][NextCopy]_vars

\* The index arguments of a copy are out of range, the sums taken as
\* mathematical integers.
IndicesOutOfRange(h, inp) ==
    LET src_pos == inp[2]
        dest_pos == inp[4]
        length == inp[5]
    IN \/ src_pos < 0 \/ dest_pos < 0 \/ length < 0
       \/ length > get_array_length(h, inp[1]) - src_pos
       \/ length > get_array_length(h, inp[3]) - dest_pos

\* C17 (bounds before any write): a call of copy_primitive_slice whose src_pos,
\* dest_pos or length is negative, or whose src_pos + length or
\* dest_pos + length, taken as mathematical integers, exceeds the array's
\* length, fails and leaves every heap byte as it was.
C17_CopyBoundsChecked ==
    [][(ev'.type = "arraycopy" /\ ev'.native /\ IndicesOutOfRange(heap, ev'.inp))
          => (ev'.name \in {"ArrayIndexOutOfBoundsException", "panic"}
              /\ heap' = heap)]_vars

\* A copy with src_pos + length beyond 2^31 - 1 returned normally and changed
\* the heap.
C17_Witness ==
    /\ ev.type = "arraycopy" /\ ev.native /\ ev.ok
    /\ ev.inp[5] = I32Max /\ ev.inp[2] > 0
    /\ read_array_element(heap, ev.inp[3], 2).val # Integer(0)

\* C18 (memmove): copy_primitive_slice(a, 0, a, k, n) with indices in range
\* leaves in elements k .. k+n-1 the values elements 0 .. n-1 held before the
\* call, also when the two ranges overlap, and leaves the other elements of a
\* as they were.
C18_OverlappingCopy ==
    [][(/\ ev'.type = "arraycopy" /\ ev'.native
        /\ ev'.inp[1] = ev'.inp[3] /\ ev'.inp[2] = 0
        /\ ~IndicesOutOfRange(heap, ev'.inp))
          => LET a == ev'.inp[1]
                 k == ev'.inp[4]
                 n == ev'.inp[5]
             IN /\ ev'.ok
                /\ \A i \in 0..(get_array_length(heap, a) - 1) :
                      read_array_element(heap', a, i).val =
                         IF i >= k /\ i < k + n
                         THEN read_array_element(heap, a, i - k).val
                         ELSE read_array_element(heap, a, i).val]_vars

\* Elements 0..2 of the int[4] were copied onto elements 1..3.
C18_Witness ==
    /\ ev.type = "arraycopy" /\ ev.native /\ ev.ok
    /\ ev.inp[1] = ev.inp[3] /\ ev.inp[2] = 0 /\ ev.inp[4] = 1 /\ ev.inp[5] = 3
    /\ read_array_element(heap, ev.inp[1], 1).val \in {Integer(11), Integer(-1)}
    /\ read_array_element(heap, ev.inp[1], 3).val \in {Integer(33), Integer(I32Min)}

(***************************************************************************)
(* Allocation and field access on a small heap                             *)
(***************************************************************************)
\* Up to two objects are there already: an instance of 24 data bytes and an
\* Object[2].
InitHeap ==
    /\ classpath = ClassPathOf("plain", "override")
    /\ \E r \in {get_class_id_or_load(preload_basic_classes(MethodArea_new(classpath)),
                                       "[LObject;", "asc")} :
       \E a \in {alloc_instance(Heap_new, 24, r.ma.java_lang_object_id)} :
       \E b \in {alloc_object_array(a.heap, r.id, 2)} :
          /\ ma = r.ma
          /\ heap \in {Heap_new, a.heap, b.heap}
    /\ frames = [t \in Threads |-> <<>>]
    /\ ctl = [t \in Threads |-> [acts |-> <<>>, sig |-> NoSig]]
    /\ result = [t \in Threads |-> "none"]
    /\ calls = 0
    /\ ev = NoEv
    /\ hist = [first |-> EmptyMap, failed_since |-> {},
               clinit_count |-> EmptyMap, transitions |-> EmptyMap, allocs |-> <<>>]

\* Heap::alloc_instance called for a class; ev.inp holds the data size asked for.
Alloc_instance(instance_size, class_id) ==
    /\ calls < MaxHeapOps
    /\ \E r \in {alloc_instance(heap, instance_size, class_id)} :
          /\ heap' = r.heap
          /\ ev' = [NoEv EXCEPT !.type = "alloc", !.ok = r.ok, !.name = r.err,
                                !.ref = r.ref, !.inp = <<instance_size>>]
    /\ calls' = calls + 1
    /\ UNCHANGED <<classpath, ma, frames, ctl, result, hist>>

\* Heap::alloc_primitive_array or Heap::alloc_object_array
Alloc_array(allocation_type, length, class_id) ==
    /\ calls < MaxHeapOps
    /\ \E r \in {IF allocation_type = "Reference"
                 THEN alloc_object_array(heap, class_id, length)
                 ELSE alloc_primitive_array(heap, class_id, allocation_type, length)} :
          /\ heap' = r.heap
          /\ ev' = [NoEv EXCEPT !.type = "alloc", !.ok = r.ok, !.name = r.err,
                                !.ref = r.ref,
                                !.inp = <<8 + length
                                               * AllocationType_byte_size(allocation_type)>>]
    /\ calls' = calls + 1
    /\ UNCHANGED <<classpath, ma, frames, ctl, result, hist>>

\* Heap::write_field on a field that lies inside the object
Write_field(heap_ref, field_offset, value, field_type) ==
    /\ calls < MaxHeapOps
    /\ field_offset + AllocationType_byte_size(field_type)
          <= heap.objs[heap_ref].size - ObjectHeaderSize
    /\ \E r \in {write_field(heap, heap_ref, field_offset, value, field_type)} :
          /\ heap' = r.heap
          /\ ev' = [NoEv EXCEPT !.type = "write_field", !.ok = r.ok,
                                !.name = field_type, !.ref = heap_ref,
                                !.n = field_offset, !.inp = <<value>>]
    /\ calls' = calls + 1
    /\ UNCHANGED <<classpath, ma, frames, ctl, result, hist>>

InstanceSizes == {0, 8, 24, 100}
ArrayLengths == {-1, 0, 3, 30}
FieldOffsets == {8, 16}

\* The values handed to write_field for each field type.  An int field is
\* also tried with null and a reference, a reference field with an integer:
\* write_field rejects these.
IntegerInputs ==
    [Boolean |-> {0, 1, 2, -1, 256},
     Byte |-> {0, -1, 127, 128, -129, 255, 256},
     Short |-> {-1, 32767, 32768, 65541},
     Char |-> {-1, 65, 65536},
     Int |-> {I32Min, -1, 0, 7, I32Max},
     Float |-> {0, I32Min, 2143289344}]

WideInputs == {<<0, 5>>, <<-1, -1>>, <<I32Min, 0>>, <<0, -1>>, <<I32Max, I32Min>>}

ReferenceInputs == <<Ref(16), Ref(56), Ref(0), Null>>

\* the values tried for a field type
FieldInputs(field_type) ==
    CASE field_type = "Float" -> {Float(v) : v \in IntegerInputs[field_type]}
      [] field_type = "Long" -> {Long(v) : v \in WideInputs}
      [] field_type = "Double" -> {Double(v) : v \in WideInputs}
      [] field_type = "Reference" ->
            {ReferenceInputs[i] : i \in DOMAIN ReferenceInputs} \cup {Integer(1)}
      [] field_type = "Int" ->
            {Integer(v) : v \in IntegerInputs[field_type]} \cup {Null, Ref(16)}
      [] OTHER -> {Integer(v) : v \in IntegerInputs[field_type]}

NextHeap ==
    \/ \E instance_size \in InstanceSizes :
          Alloc_instance(instance_size, ma.java_lang_object_id)
    \/ \E allocation_type \in {"Byte", "Int", "Long", "Reference"},
          length \in ArrayLengths :
          Alloc_array(allocation_type, length, ma.class_name_to_index["[B"])
    \/ \E heap_ref \in DOMAIN heap.objs, field_offset \in FieldOffsets,
          i \in DOMAIN AllocationTypes :
          \E value \in FieldInputs(AllocationTypes[i]) :
             Write_field(heap_ref, field_offset, value, AllocationTypes[i])

SpecHeap == InitHeap /\ [][NextHeap]_vars

\* The value a field of a type holds after a value was stored: the integer
\* narrowed to the field's width and extended back, or the value itself.
Narrowed(v, width) == (((v % width) + width \div 2) % width) - width \div 2

Stored(field_type, value) ==
    CASE field_type = "Boolean" -> Integer(IF value.v = 0 THEN 0 ELSE 1)
      [] field_type = "Byte" -> Integer(Narrowed(value.v, 256))
      [] field_type = "Short" -> Integer(Narrowed(value.v, U16))
      [] field_type = "Char" -> Integer(value.v % U16)
      [] OTHER -> value

\* C19 (field round trip): after write_field accepted a value for a field of
\* some type, read_field at the same reference, offset and type returns the
\* value: a byte or short narrowed and sign-extended, a char zero-extended, a
\* boolean as 0 or 1, an int, long, float or double unchanged, a reference as
\* the same reference and null as null.
C19_FieldRoundTrip ==
    (ev.type = "write_field" /\ ev.ok)
       => read_field(heap, ev.ref, ev.n, ev.name) = Stored(ev.name, ev.inp[1])

\* The reference Value::Ref(0) was stored in a reference field and the field
\* reads as null.
C19_Witness ==
    /\ ev.type = "write_field" /\ ev.ok /\ ev.name = "Reference"
    /\ ev.inp[1].tag = "Ref" /\ ev.inp[1].v = 0
    /\ read_field(heap, ev.ref, ev.n, "Reference") = Null

\* C20 (exhaustion): an allocation for which the heap's remaining capacity is
\* smaller than the header plus the data size, rounded up to 8, fails with
\* OutOfMemory and leaves the bump pointer and every object as they were.
C20_OutOfMemory ==
    [][(ev'.type = "alloc" /\ ev'.inp[1] >= 0
        /\ HeapCapacity - heap.allocated
              < AlignUp(ObjectHeaderSize + ev'.inp[1], 8))
          => (~ev'.ok /\ ev'.name = "OutOfMemory" /\ heap' = heap)]_vars

\* An allocation that did not fit failed and left the heap as it was.
C20_Witness ==
    /\ ev.type = "alloc" /\ ~ev.ok /\ ev.name = "Todo(Heap full)"
    /\ ev.inp = <<100>>
    /\ heap.allocated = ObjectHeaderSize + 40 + 40

(***************************************************************************)
(* Strings, clones and the intern pool                                     *)
(***************************************************************************)
LATIN1 == 0
UTF16 == 1

\* Heap::new's string_instance_size: the instance size of java/lang/String,
\* whose value field is at offset 0 and whose coder field is at offset 8.
StringInstanceSize == 16

\* The interned Rust strings, as their characters' code points.
StringChars == [ab |-> <<97, 98>>, eur |-> <<8364>>, e |-> <<233>>]

\* str::encode_utf16 laid out in memory, for characters of the basic plane
RECURSIVE utf16_bytes(_, _)
utf16_bytes(chars, i) ==
    IF i > Len(chars) THEN <<>>
    ELSE <<chars[i] % 256, chars[i] \div 256>> \o utf16_bytes(chars, i + 1)

\* The bytes and the coder chosen by alloc_string_from_str_with_char_mapping
\* without a mapper: one byte per character if every character is below 256
\* (the ASCII and the Latin-1 path), two per UTF-16 unit otherwise.
string_encoding(chars) ==
    IF \A i \in DOMAIN chars : chars[i] <= 255
    THEN [bytes |-> chars, coder |-> LATIN1]
    ELSE [bytes |-> utf16_bytes(chars, 1), coder |-> UTF16]

\* Heap::alloc_string_from_str_with_char_mapping(s, None): the byte array,
\* then the String instance and its two fields.  A failure of the second
\* allocation leaves the byte array allocated.
alloc_string(h, m, chars) ==
    LET enc == string_encoding(chars)
        arr == alloc_primitive_array(h, m.class_name_to_index["[B"], "Byte",
                                     Len(enc.bytes))
        h1 == [arr.heap EXCEPT
                 !.mem = write_bytes(@, arr.ref + ObjectHeaderSize + 8, enc.bytes)]
        inst == alloc_instance(h1, StringInstanceSize, m.class_name_to_index["String"])
        w1 == write_field(inst.heap, inst.ref, 0, Ref(arr.ref), "Reference")
        w2 == write_field(w1.heap, inst.ref, 8, Integer(enc.coder), "Byte")
    IN IF ~arr.ok THEN [ok |-> FALSE, err |-> arr.err, heap |-> h, ref |-> 0]
       ELSE IF ~inst.ok THEN [ok |-> FALSE, err |-> inst.err, heap |-> h1, ref |-> 0]
       ELSE [ok |-> TRUE, err |-> "", heap |-> w2.heap, ref |-> inst.ref]

\* Heap::alloc_string_from_interned
alloc_string_from_interned(h, m, val_sym) == alloc_string(h, m, StringChars[val_sym])

\* An intern pool that is never consulted.
get_str_always_new(h, m, val_sym) ==
    LET res == alloc_string_from_interned(h, m, val_sym)
    IN IF ~res.ok THEN res
       ELSE [res EXCEPT !.heap.string_pool = MapPut(@, val_sym, res.ref)]

\* Heap::get_str_from_pool_or_new
get_str_from_pool_or_new(h, m, val_sym) ==
    IF val_sym \in DOMAIN h.string_pool
    THEN [ok |-> TRUE, err |-> "", heap |-> h, ref |-> h.string_pool[val_sym]]
    ELSE LET res == alloc_string_from_interned(h, m, val_sym)
         IN IF ~res.ok THEN res
            ELSE [res EXCEPT !.heap.string_pool = MapPut(@, val_sym, res.ref)]

\* Heap::clone_object.  The data size is the source header's size less the
\* header; the clone's header gets class_id, marked and is_array but no size,
\* so its size stays the zero of fresh memory.  For a source whose size is
\* below the header size the subtraction underflows: a build with overflow
\* checks panics, a build without them asks for nearly 2^64 bytes and is
\* stopped by a fault while zeroing them (on_overflow).
clone_object(h, src, on_overflow) ==
    LET hdr == h.objs[src]
        data_size == hdr.size - ObjectHeaderSize
        dest == alloc_raw(h, data_size)
    IN IF hdr.size < ObjectHeaderSize
       THEN [ok |-> FALSE, err |-> on_overflow, heap |-> h, ref |-> 0]
       ELSE IF ~dest.ok THEN [ok |-> FALSE, err |-> dest.err, heap |-> h, ref |-> 0]
       ELSE [ok |-> TRUE, err |-> "",
             heap |-> [dest.heap EXCEPT
                 !.mem = ptr_copy(@, src + ObjectHeaderSize,
                                  dest.ref + ObjectHeaderSize, data_size),
                 !.objs = MapPut(@, dest.ref,
                                 [class_id |-> hdr.class_id, size |-> 0,
                                  is_array |-> hdr.is_array])],
             ref |-> dest.ref]

(***************************************************************************)
(* Sequences of allocations.  hist.allocs lists every object allocated so  *)
(* far with its data size, and whether its reference was returned to the   *)
(* caller; hist.first holds the reference first returned for a symbol.     *)
(***************************************************************************)
MaxAllocs == 3         \* allocation calls per run

InitAlloc ==
    /\ classpath = ClassPathOf("plain", "override")
    /\ ma = preload_basic_classes(MethodArea_new(classpath))
    /\ heap = Heap_new
    /\ frames = [t \in Threads |-> <<>>]
    /\ ctl = [t \in Threads |-> [acts |-> <<>>, sig |-> NoSig]]
    /\ result = [t \in Threads |-> "none"]
    /\ calls = 0
    /\ ev = NoEv
    /\ hist = [first |-> EmptyMap, failed_since |-> {},
               clinit_count |-> EmptyMap, transitions |-> EmptyMap, allocs |-> <<>>]

NewObject(ref, size, returned) == [ref |-> ref, size |-> size, returned |-> returned]

\* What every allocation step does with a call's result r; news are the
\* objects the call allocated.
Allocated(op, r, news) ==
    /\ heap' = r.heap
    /\ ev' = [NoEv EXCEPT !.type = "allocate", !.name = op, !.ok = r.ok,
                          !.ref = r.ref, !.n = Len(news)]
    /\ hist' = [hist EXCEPT !.allocs = @ \o news]
    /\ calls' = calls + 1
    /\ UNCHANGED <<classpath, ma, frames, ctl, result>>

\* the objects alloc_string allocates, given where the bump pointer stood
StringObjects(h, r, chars) ==
    LET arr_size == 8 + Len(string_encoding(chars).bytes)
    IN IF r.heap.allocated = h.allocated THEN <<>>
       ELSE <<NewObject(h.allocated, arr_size, FALSE)>>
            \o (IF r.ok THEN <<NewObject(r.ref, StringInstanceSize, TRUE)>> ELSE <<>>)

AllocInstance(instance_size) ==
    /\ calls < MaxAllocs
    /\ \E r \in {alloc_instance(heap, instance_size, ma.java_lang_object_id)} :
          Allocated("alloc_instance", r,
                    IF r.ok THEN <<NewObject(r.ref, instance_size, TRUE)>> ELSE <<>>)

AllocArray(allocation_type, length) ==
    /\ calls < MaxAllocs
    /\ \E r \in {IF allocation_type = "Reference"
                 THEN alloc_object_array(heap, ma.class_name_to_index["[B"], length)
                 ELSE alloc_primitive_array(heap, ma.class_name_to_index["[B"],
                                            allocation_type, length)} :
          Allocated("alloc_array", r,
                    IF r.ok
                    THEN <<NewObject(r.ref,
                              8 + length * AllocationType_byte_size(allocation_type),
                              TRUE)>>
                    ELSE <<>>)

\* Heap::alloc_string
AllocString(val_sym) ==
    /\ calls < MaxAllocs
    /\ \E r \in {alloc_string(heap, ma, StringChars[val_sym])} :
          Allocated("alloc_string", r, StringObjects(heap, r, StringChars[val_sym]))

CloneObject(src, on_overflow) ==
    /\ calls < MaxAllocs
    /\ \E r \in {clone_object(heap, src, on_overflow)} :
          Allocated("clone_object", r,
                    IF r.ok
                    THEN <<NewObject(r.ref, heap.objs[src].size - ObjectHeaderSize,
                                     TRUE)>>
                    ELSE <<>>)

\* A thread holding the heap's write lock calls get_str_from_pool_or_new (from
\* ldc of a string constant or from String.intern).
InternString(t, val_sym) ==
    /\ calls < MaxAllocs
    /\ \E r \in {get_str_from_pool_or_new(heap, ma, val_sym)} :
          /\ heap' = r.heap
          /\ ev' = [NoEv EXCEPT !.type = "intern", !.name = val_sym, !.ok = r.ok,
                                !.ref = r.ref, !.thread = t,
                                !.again = val_sym \in DOMAIN hist.first,
                                !.n = Cardinality(DOMAIN r.heap.objs)
                                         - Cardinality(DOMAIN heap.objs)]
          /\ hist' = [hist EXCEPT
                        !.first = IF r.ok /\ val_sym \notin DOMAIN @
                                  THEN MapPut(@, val_sym, r.ref) ELSE @,
                        !.allocs = @ \o (IF val_sym \in DOMAIN heap.string_pool
                                         THEN <<>>
                                         ELSE StringObjects(heap, r,
                                                            StringChars[val_sym]))]
    /\ calls' = calls + 1
    /\ UNCHANGED <<classpath, ma, frames, ctl, result>>

NextAlloc ==
    \/ \E instance_size \in {0, 24} : AllocInstance(instance_size)
    \/ \E allocation_type \in {"Byte", "Reference"}, length \in {0, 3} :
          AllocArray(allocation_type, length)
    \/ \E val_sym \in {"ab", "eur"} : AllocString(val_sym)
    \/ \E src \in DOMAIN heap.objs, on_overflow \in {"panic", "fault"} :
          CloneObject(src, on_overflow)
    \/ \E t \in Threads, val_sym \in DOMAIN StringChars : InternString(t, val_sym)

SpecAlloc == InitAlloc /\ [][NextAlloc]_vars

\* C21 (refs are fresh, aligned and in range): every object allocated by a
\* successful alloc_instance, array allocation, string allocation or
\* clone_object has a reference that is not 0, is a multiple of 8 and is above
\* every reference handed out before it, and its bytes [ref, ref + 16 + data
\* size) lie inside the heap and share no byte with an earlier object.
C21_FreshAlignedRefs ==
    \A i \in DOMAIN hist.allocs :
       LET o == hist.allocs[i]
       IN /\ o.ref # 0
          /\ o.ref % 8 = 0
          /\ o.ref + ObjectHeaderSize + o.size <= HeapCapacity
          /\ \A j \in 1..(i - 1) :
                LET p == hist.allocs[j]
                IN p.ref < o.ref /\ p.ref + ObjectHeaderSize + p.size <= o.ref

\* A clone was returned after at least two other allocations, one of them a
\* string's byte array of a length that is not a multiple of 8.
C21_Witness ==
    /\ ev.type = "allocate" /\ ev.name = "clone_object" /\ ev.ok
    /\ Len(hist.allocs) >= 3
    /\ hist.allocs[Len(hist.allocs)].ref = ev.ref
    /\ \E i \in DOMAIN hist.allocs :
          ~hist.allocs[i].returned /\ hist.allocs[i].size % 8 # 0

\* C22 (one string per symbol): every successful get_str_from_pool_or_new for
\* a symbol returns the reference the first successful call for that symbol
\* returned, whichever threads call and in whatever order, and a call for a
\* symbol that was interned before succeeds without allocating any object.
C22_OneStringPerSymbol ==
    ev.type = "intern" =>
       /\ ev.ok => ev.ref = hist.first[ev.name]
       /\ ev.again => (ev.ok /\ ev.n = 0)

\* Thread 2 interns a symbol that was interned before, as the third call of the
\* run, and gets the string allocated by the first call.
C22_Witness ==
    /\ ev.type = "intern" /\ ev.again /\ ev.ok /\ ev.thread = 2
    /\ calls = 3
    /\ ev.ref = ObjectHeaderSize + 32
    /\ heap.string_pool[ev.name] = ev.ref

(***************************************************************************)
(* Static field resolution over a loaded hierarchy                         *)
(***************************************************************************)
RECURSIVE load_all(_, _, _)
load_all(m, names, i) ==
    IF i > Len(names) THEN m
    ELSE load_all(get_class_id_or_load(m, names[i], "asc").ma, names, i + 1)

\* Sub (under Base), Impl (implementing IfaceC, which extends Iface) and Wide
\* are loaded.
InitResolve ==
    /\ classpath = ClassPathOf("plain", "override")
    /\ ma = load_all(preload_basic_classes(MethodArea_new(classpath)),
                     <<"Sub", "Impl", "Wide">>, 1)
    /\ heap = Heap_new
    /\ frames = [t \in Threads |-> <<>>]
    /\ ctl = [t \in Threads |-> [acts |-> <<>>, sig |-> NoSig]]
    /\ result = [t \in Threads |-> "none"]
    /\ calls = 0
    /\ ev = NoEv
    /\ hist = [first |-> EmptyMap, failed_since |-> {},
               clinit_count |-> EmptyMap, transitions |-> EmptyMap, allocs |-> <<>>]

\* MethodArea::resolve_static_field_actual_class_id called by getstatic or
\* putstatic for a receiver class and a field; every Err it returns is a
\* JvmError::Todo.
Resolve_static_field(class_id, field_key, ord) ==
    /\ calls < MaxCalls
    /\ \E r \in {resolve_static_field_actual_class_id(ma, class_id, field_key, ord)} :
          ev' = [NoEv EXCEPT !.type = "resolve", !.cls = class_id,
                             !.name = field_key[1], !.ok = (r # 0), !.id = r,
                             !.inp = <<IF r = 0 THEN "Todo" ELSE "">>]
    /\ calls' = calls + 1
    /\ UNCHANGED <<classpath, ma, heap, frames, ctl, result, hist>>

StaticFieldNames == {"x", "y", "K", "KC", "w", "nope"}

NextResolve ==
    \E class_id \in 1..Len(ma.classes), name \in StaticFieldNames,
       ord \in {"asc", "desc"} :
       Resolve_static_field(class_id, <<name, "I">>, ord)

SpecResolve == InitResolve /\ [][NextResolve]_vars

\* the superclass chain of a class, the class included
RECURSIVE SuperChain(_, _)
SuperChain(m, c) ==
    IF c = 0 THEN {} ELSE {c} \cup SuperChain(m, m.classes[c].super)

\* The classes a static field of receiver c can come from: its superclass
\* chain and every interface it implements, superinterfaces included.
FieldSources(m, c) ==
    IF m.classes[c].kind = "instance"
    THEN SuperChain(m, c)
         \cup ImplementedInterfaces(m, UNION {m.classes[s].interfaces : s \in SuperChain(m, c)})
    ELSE ImplementedInterfaces(m, {c})

\* C23 (static field resolution): resolving a static field from an instance or
\* interface receiver returns a class that declares it - the nearest one in
\* the superclass chain if there is one, else an implemented interface,
\* superinterfaces included - and fails with NoSuchFieldError exactly when no
\* class of the chain and no implemented interface declares the field.
C23_StaticFieldResolution ==
    (ev.type = "resolve" /\ ma.classes[ev.cls].kind \in {"instance", "interface"}) =>
       LET key == <<ev.name, "I">>
           declaring == {c \in FieldSources(ma, ev.cls) :
                            has_static_field(ma.classes[c], key)}
           in_chain == declaring \cap SuperChain(ma, ev.cls)
       IN IF declaring = {}
          THEN ~ev.ok /\ ev.inp = <<"NoSuchFieldError">>
          ELSE /\ ev.ok /\ ev.id \in declaring
               /\ in_chain # {} =>
                     (ev.id \in in_chain
                      /\ \A c \in in_chain : c \in SuperChain(ma, ev.id))

\* The receiver is the interface IfaceC, the field is declared by Iface, which
\* IfaceC extends, and the resolution failed.
C23_Witness ==
    /\ ev.type = "resolve" /\ ~ev.ok /\ ev.name = "K"
    /\ ev.cls = ma.class_name_to_index["IfaceC"]
    /\ ma.class_name_to_index["Iface"] \in ma.classes[ev.cls].interfaces
    /\ has_static_field(ma.classes[ma.class_name_to_index["Iface"]], <<"K", "I">>)

(***************************************************************************)
(* The runtime constant pool of a class.  An entry has its tag, up to two  *)
(* indices a and b into the pool, a Utf8 entry its value, and the lazily   *)
(* filled symbols sym1 and sym2 ("" while unset).  Pool index i is         *)
(* element i + 1.  A lookup returns its result and the pool with the       *)
(* symbols it filled.                                                      *)
(***************************************************************************)
CpEntry(tag, a, b, value) ==
    [tag |-> tag, a |-> a, b |-> b, value |-> value, sym1 |-> "", sym2 |-> ""]

\* ExceptionMessage::IncompatibleClassChangeRuntimePool
TagMismatch(pool_idx, expected, actual) ==
    <<"IncompatibleClassChangeError", pool_idx, expected, actual>>

CpOk(cp, val) == [ok |-> TRUE, err |-> <<>>, cp |-> cp, val |-> val]
CpErr(cp, err) == [ok |-> FALSE, err |-> err, cp |-> cp, val |-> ""]

\* RuntimeConstantPool::entry
in_pool(cp, idx) == idx < Len(cp)
entry_err(idx) == <<"ClassFormatError", idx, "", "">>

\* RuntimeConstantPool::get_utf8_sym
get_utf8_sym(cp, idx) ==
    IF ~in_pool(cp, idx) THEN CpErr(cp, entry_err(idx))
    ELSE LET e == cp[idx + 1]
         IN IF e.tag = "Utf8"
            THEN CpOk([cp EXCEPT ![idx + 1].sym1 = e.value], e.value)
            ELSE CpErr(cp, TagMismatch(idx, "Utf8", e.tag))

\* OnceCell::get_or_try_init on sym1 of the entry at idx, filled by
\* get_utf8_sym(a)
sym1_or_utf8(cp, idx) ==
    LET e == cp[idx + 1]
        r == get_utf8_sym(cp, e.a)
    IN IF e.sym1 # "" THEN CpOk(cp, e.sym1)
       ELSE IF ~r.ok THEN r
       ELSE CpOk([r.cp EXCEPT ![idx + 1].sym1 = r.val], r.val)

\* RuntimeConstantPool::get_class_sym
get_class_sym(cp, idx) ==
    IF ~in_pool(cp, idx) THEN CpErr(cp, entry_err(idx))
    ELSE IF cp[idx + 1].tag = "Class" THEN sym1_or_utf8(cp, idx)
    ELSE CpErr(cp, TagMismatch(idx, "Class", cp[idx + 1].tag))

\* RuntimeConstantPool::get_string_sym
get_string_sym(cp, idx) ==
    IF ~in_pool(cp, idx) THEN CpErr(cp, entry_err(idx))
    ELSE IF cp[idx + 1].tag = "String" THEN sym1_or_utf8(cp, idx)
    ELSE CpErr(cp, TagMismatch(idx, "String", cp[idx + 1].tag))

\* RuntimeConstantPool::get_nat_view
get_nat_view(cp, idx) ==
    IF ~in_pool(cp, idx) THEN CpErr(cp, entry_err(idx))
    ELSE IF cp[idx + 1].tag # "NameAndType"
    THEN CpErr(cp, TagMismatch(idx, "MethodNameAndType", cp[idx + 1].tag))
    ELSE LET n == sym1_or_utf8(cp, idx)
             e == n.cp[idx + 1]
             d == get_utf8_sym(n.cp, e.b)
         IN IF ~n.ok THEN n
            ELSE IF e.sym2 # "" THEN CpOk(n.cp, <<n.val, e.sym2>>)
            ELSE IF ~d.ok THEN d
            ELSE CpOk([d.cp EXCEPT ![idx + 1].sym2 = d.val], <<n.val, d.val>>)

\* The body shared by get_method_view, get_interface_method_view and
\* get_field_view: class_sym through get_or_try_init, then the name and type.
ref_view(cp, idx, tag) ==
    IF ~in_pool(cp, idx) THEN CpErr(cp, entry_err(idx))
    ELSE IF cp[idx + 1].tag # tag THEN CpErr(cp, TagMismatch(idx, tag, cp[idx + 1].tag))
    ELSE LET e == cp[idx + 1]
             c == IF e.sym1 # "" THEN CpOk(cp, e.sym1)
                  ELSE LET r == get_class_sym(cp, e.a)
                       IN IF ~r.ok THEN r
                          ELSE CpOk([r.cp EXCEPT ![idx + 1].sym1 = r.val], r.val)
             nat == get_nat_view(c.cp, e.b)
         IN IF ~c.ok THEN c
            ELSE IF ~nat.ok THEN nat
            ELSE CpOk(nat.cp, <<c.val, nat.val>>)

get_method_view(cp, idx) == ref_view(cp, idx, "Method")
get_interface_method_view(cp, idx) == ref_view(cp, idx, "InterfaceMethod")
get_field_view(cp, idx) == ref_view(cp, idx, "Field")

\* The typed lookups and the tag each of them accepts.
LookupTag ==
    [utf8 |-> "Utf8", class |-> "Class", string |-> "String", nat |-> "NameAndType",
     field |-> "Field", method |-> "Method", interface_method |-> "InterfaceMethod"]

typed_lookup(cp, kind, idx) ==
    CASE kind = "utf8" -> get_utf8_sym(cp, idx)
      [] kind = "class" -> get_class_sym(cp, idx)
      [] kind = "string" -> get_string_sym(cp, idx)
      [] kind = "nat" -> get_nat_view(cp, idx)
      [] kind = "field" -> get_field_view(cp, idx)
      [] kind = "method" -> get_method_view(cp, idx)
      [] OTHER -> get_interface_method_view(cp, idx)

\* A pool with one entry of every looked-up tag, an Integer, and three
\* entries whose indices point at an entry of the wrong tag or outside.
PoolUnderTest ==
    <<CpEntry("Unused", 0, 0, ""),
      CpEntry("Utf8", 0, 0, "Main"),
      CpEntry("Class", 1, 0, ""),
      CpEntry("Utf8", 0, 0, "f"),
      CpEntry("Utf8", 0, 0, "I"),
      CpEntry("NameAndType", 3, 4, ""),
      CpEntry("Field", 2, 5, ""),
      CpEntry("Method", 2, 5, ""),
      CpEntry("InterfaceMethod", 2, 5, ""),
      CpEntry("String", 1, 0, ""),
      CpEntry("Integer", 0, 0, ""),
      CpEntry("Class", 2, 0, ""),
      CpEntry("NameAndType", 3, 40, ""),
      CpEntry("Method", 2, 12, "")>>

MaxLookups == 2        \* constant-pool lookups per run

\* the class whose pool is looked into
PoolClass(m) == m.java_lang_object_id

InitPool ==
    /\ classpath = ClassPathOf("plain", "override")
    /\ \E m \in {preload_basic_classes(MethodArea_new(classpath))} :
          ma = SetClass(m, PoolClass(m), [cp |-> PoolUnderTest] @@ get_class(m, PoolClass(m)))
    /\ heap = Heap_new
    /\ frames = [t \in Threads |-> <<>>]
    /\ ctl = [t \in Threads |-> [acts |-> <<>>, sig |-> NoSig]]
    /\ result = [t \in Threads |-> "none"]
    /\ calls = 0
    /\ ev = NoEv
    /\ hist = [first |-> EmptyMap, failed_since |-> {},
               clinit_count |-> EmptyMap, transitions |-> EmptyMap, allocs |-> <<>>]

\* One typed lookup on the class's pool; ev.inp is the error it reported.
Lookup(kind, idx) ==
    /\ calls < MaxLookups
    /\ \E r \in {typed_lookup(get_class(ma, PoolClass(ma)).cp, kind, idx)} :
          /\ ma' = [ma EXCEPT !.classes[PoolClass(ma)].cp = r.cp]
          /\ ev' = [NoEv EXCEPT !.type = "lookup", !.name = kind, !.n = idx,
                                !.ok = r.ok, !.inp = r.err]
    /\ calls' = calls + 1
    /\ UNCHANGED <<classpath, heap, frames, ctl, result, hist>>

NextPool ==
    \E kind \in DOMAIN LookupTag, idx \in 0..Len(PoolUnderTest) : Lookup(kind, idx)

SpecPool == InitPool /\ [][NextPool]_vars

\* C24 (constant-pool lookup errors): a typed lookup at an index outside the
\* pool reports ClassFormatError; a typed lookup at an index whose entry has
\* another tag than the lookup's reports IncompatibleClassChangeError carrying
\* the index, the lookup's own kind as the expected kind and the entry's tag
\* as the actual kind; either failure leaves every lazily filled symbol as it
\* was, so the same lookup fails the same way again.
C24_LookupErrors ==
    [][ev'.type = "lookup" =>
          LET cp == get_class(ma, PoolClass(ma)).cp
              idx == ev'.n
          IN /\ ~in_pool(cp, idx) =>
                   (/\ ~ev'.ok /\ ev'.inp[1] = "ClassFormatError"
                    /\ ma' = ma)
             /\ (in_pool(cp, idx) /\ cp[idx + 1].tag # LookupTag[ev'.name]) =>
                   (/\ ~ev'.ok
                    /\ ev'.inp = TagMismatch(idx, LookupTag[ev'.name], cp[idx + 1].tag)
                    /\ ma' = ma
                    /\ typed_lookup(get_class(ma', PoolClass(ma)).cp, ev'.name, idx).err
                          = ev'.inp)]_vars

\* A name-and-type lookup hit a Utf8 entry and reported the expected kind
\* MethodNameAndType.
C24_Witness ==
    /\ ev.type = "lookup" /\ ev.name = "nat" /\ ~ev.ok
    /\ get_class(ma, PoolClass(ma)).cp[ev.n + 1].tag = "Utf8"
    /\ ev.inp = TagMismatch(ev.n, "MethodNameAndType", "Utf8")

(***************************************************************************)
(* Instructions that take a receiver, on a stack that may hold null        *)
(***************************************************************************)
\* What a handler leaves behind: the error it returned, the thread's frames,
\* the heap, the objects it read or wrote, and the callee it pushed a frame
\* for (0 for none).
Handled(err, fr, h, touched, callee) ==
    [ok |-> err = "", err |-> err, frames |-> fr, heap |-> h,
     touched |-> touched, callee |-> callee]

\* FrameStack::pop_obj_val: the top cell is popped and must be a reference.
pop_obj_val(fr) ==
    IF Len(Top(fr).operands) = 0
    THEN [ok |-> FALSE, err |-> "Todo", frames |-> fr, ref |-> 0]
    ELSE LET r == as_obj_ref(top_operand(fr))
         IN [ok |-> r.ok, err |-> r.err, frames |-> pop_operand(fr), ref |-> r.ref]

\* FrameStack::pop_int_val
pop_int_val(fr) ==
    IF Len(Top(fr).operands) = 0 \/ top_operand(fr).tag # "Integer"
    THEN [ok |-> FALSE, err |-> "Todo", frames |-> fr, v |-> 0]
    ELSE [ok |-> TRUE, err |-> "", frames |-> pop_operand(fr), v |-> top_operand(fr).v]

\* FrameStack::pop_nullable_ref
pop_nullable_ref(fr) ==
    IF Len(Top(fr).operands) = 0 \/ top_operand(fr).tag \notin {"Ref", "Null"}
    THEN [ok |-> FALSE, err |-> "Todo", frames |-> fr, v |-> Null]
    ELSE [ok |-> TRUE, err |-> "", frames |-> pop_operand(fr), v |-> top_operand(fr)]

\* FieldDescriptor::as_allocation_type
as_allocation_type(desc) ==
    CASE desc = "B" -> "Byte"
      [] desc = "Z" -> "Boolean"
      [] desc = "S" -> "Short"
      [] desc = "C" -> "Char"
      [] desc = "I" -> "Int"
      [] desc = "J" -> "Long"
      [] OTHER -> "Reference"

\* handle_arraylength
handle_arraylength(fr, h) ==
    LET a == pop_obj_val(fr)
    IN IF ~a.ok THEN Handled(a.err, a.frames, h, {}, 0)
       ELSE IF ~Heap_is_array(h, a.ref) THEN Handled("Todo", a.frames, h, {a.ref}, 0)
       ELSE Handled("", push_operand(a.frames, Integer(get_array_length(h, a.ref))),
                    h, {a.ref}, 0)

\* handle_iaload, handle_baload, handle_caload, handle_saload, handle_aaload:
\* the index, then the array reference, then the element.
handle_xaload(fr, h) ==
    LET index == pop_int_val(fr)
        a == pop_obj_val(index.frames)
        r == read_array_element(h, a.ref, index.v)
    IN IF ~index.ok THEN Handled(index.err, index.frames, h, {}, 0)
       ELSE IF ~a.ok THEN Handled(a.err, a.frames, h, {}, 0)
       ELSE IF ~Heap_is_array(h, a.ref) THEN Handled("Todo", a.frames, h, {a.ref}, 0)
       ELSE IF ~r.ok
       THEN Handled("ArrayIndexOutOfBoundsException", a.frames, h, {a.ref}, 0)
       ELSE Handled("", push_operand(a.frames, r.val), h, {a.ref}, 0)

\* handle_iastore (the value an int) and handle_aastore (the value a
\* reference or null): the value, the index, the array reference, the store.
handle_xastore(fr, h, op) ==
    LET value == IF op = "iastore"
                 THEN LET p == pop_int_val(fr)
                      IN [ok |-> p.ok, err |-> p.err, frames |-> p.frames,
                          v |-> Integer(p.v)]
                 ELSE pop_nullable_ref(fr)
        index == pop_int_val(value.frames)
        a == pop_obj_val(index.frames)
        w == write_array_element(h, a.ref, index.v, value.v)
    IN IF ~value.ok THEN Handled(value.err, value.frames, h, {}, 0)
       ELSE IF ~index.ok THEN Handled(index.err, index.frames, h, {}, 0)
       ELSE IF ~a.ok THEN Handled(a.err, a.frames, h, {}, 0)
       ELSE IF ~Heap_is_array(h, a.ref) THEN Handled("Todo", a.frames, h, {a.ref}, 0)
       ELSE IF ~w.ok THEN Handled("ArrayIndexOutOfBoundsException", a.frames, h, {a.ref}, 0)
       ELSE Handled("", a.frames, w.heap, {a.ref}, 0)

\* handle_getfield: the receiver is popped before the field is resolved.
handle_getfield(fr, h, m, class_id, field_key) ==
    LET target_obj_ref == pop_obj_val(fr)
        target_field == get_instance_field(get_class(m, class_id), field_key)
        value == read_field(h, target_obj_ref.ref, target_field.offset,
                            as_allocation_type(field_key[2]))
    IN IF ~target_obj_ref.ok
       THEN Handled(target_obj_ref.err, target_obj_ref.frames, h, {}, 0)
       ELSE Handled("", push_operand(target_obj_ref.frames, value), h,
                    {target_obj_ref.ref}, 0)

\* handle_putfield: the value, then the receiver, then the store.
handle_putfield(fr, h, m, class_id, field_key) ==
    LET has_value == Len(Top(fr).operands) > 0
        value == top_operand(fr)
        target_obj_ref == pop_obj_val(pop_operand(fr))
        target_field == get_instance_field(get_class(m, class_id), field_key)
        w == write_field(h, target_obj_ref.ref, target_field.offset, value,
                         as_allocation_type(field_key[2]))
    IN IF ~has_value THEN Handled("Todo", fr, h, {}, 0)
       ELSE IF ~target_obj_ref.ok
       THEN Handled(target_obj_ref.err, target_obj_ref.frames, h, {}, 0)
       ELSE IF ~w.ok THEN Handled("Todo", target_obj_ref.frames, h, {target_obj_ref.ref}, 0)
       ELSE Handled("", target_obj_ref.frames, w.heap, {target_obj_ref.ref}, 0)

\* InstanceClass::get_special_method_id: the declared methods, then the
\* vtable; 0 is the NoSuchMethodError.
get_special_method_id(class, key) ==
    IF key \in DOMAIN class.declared THEN class.declared[key]
    ELSE get_vtable_method_id(class, key)

\* handle_invokespecial: the method is looked up in the named class, the
\* arguments are taken off the stack and the callee runs in a new frame; the
\* callee's body is a lone return.
handle_invokespecial(fr, h, m, class_id, method_key) ==
    LET target_method_id == get_special_method_id(get_class(m, class_id), method_key)
        n == args_count(get_method(m, target_method_id))
        args == prepare_method_args(fr, n)
        pf == push_frame(args.frames, JavaFrame_new(target_method_id, args.args))
    IN IF target_method_id = 0 THEN Handled("NoSuchMethodError", fr, h, {}, 0)
       ELSE IF Len(Top(fr).operands) < n THEN Handled("Todo", fr, h, {}, 0)
       ELSE IF ~pf.ok THEN Handled("Todo", args.frames, h, {}, 0)
       ELSE Handled("", pop_frame(pf.frames), h, {}, target_method_id)

\* The cells of a caller's stack: the Recv object, the Base object, the
\* int[2], null, an int and a long.
ReceiverCells == <<Ref(16), Ref(32), Ref(64), Null, Integer(1), Long(<<0, 5>>)>>

\* A Recv object, a Base object and an int[2] are allocated, and thread 1 is
\* inside Recv.caller with some operand stack.
InitReceiver ==
    /\ classpath = ClassPathOf("plain", "override")
    /\ \E m \in {load_all(preload_basic_classes(MethodArea_new(classpath)),
                          <<"Recv", "Base", "[I">>, 1)} :
       \E r \in {get_class_id_or_load(m, "Recv", "asc")} :
       \E b \in {get_class_id_or_load(m, "Base", "asc")} :
       \E ia \in {get_class_id_or_load(m, "[I", "asc")} :
       \E o1 \in {alloc_instance(Heap_new, get_class(m, r.id).instance_size, r.id)} :
       \E o2 \in {alloc_instance(o1.heap, get_class(m, b.id).instance_size, b.id)} :
       \E o3 \in {alloc_primitive_array(o2.heap, ia.id, "Int", 2)} :
       \E n \in 1..MaxOperands : \E pick \in [1..n -> DOMAIN ReceiverCells] :
          /\ ma = m
          /\ heap = o3.heap
          /\ frames = [t \in Threads |->
                         IF t = 1
                         THEN <<[JavaFrame_new(
                                    get_static_method_id_rec(m, r.id, <<"caller", "()V">>),
                                    <<>>)
                                 EXCEPT !.operands = [i \in 1..n |-> ReceiverCells[pick[i]]]]>>
                         ELSE <<>>]
    /\ ctl = [t \in Threads |-> [acts |-> <<>>, sig |-> NoSig]]
    /\ result = [t \in Threads |-> "none"]
    /\ calls = 0
    /\ ev = NoEv
    /\ hist = [first |-> EmptyMap, failed_since |-> {},
               clinit_count |-> EmptyMap, transitions |-> EmptyMap, allocs |-> <<>>]

\* The id of a loaded class.
class_id_of(m, name) == get_class_id_or_load(m, name, "asc").id

\* One instruction of the caller: its handler, with the receiver's depth and
\* what the handler did noted.
Handle(t, type, name, depth, r) ==
    /\ calls' = calls + 1
    /\ frames' = [frames EXCEPT ![t] = r.frames]
    /\ heap' = r.heap
    /\ ev' = [NoEv EXCEPT !.type = type, !.name = name, !.n = depth, !.ok = r.ok,
                          !.id = r.callee, !.thread = t,
                          !.stack = LET cell == peek_operand_at(frames[t], depth)
                                    IN IF cell.ok THEN <<cell.value>> ELSE <<>>,
                          !.inp = <<r.err, r.touched>>]
    /\ UNCHANGED <<classpath, ma, ctl, result, hist>>

Array_length(t) ==
    /\ calls < MaxCalls
    /\ Handle(t, "arraylength", "", 0, handle_arraylength(frames[t], heap))

Array_load(t) ==
    /\ calls < MaxCalls
    /\ Handle(t, "iaload", "", 1, handle_xaload(frames[t], heap))

Array_store(t, op) ==
    /\ calls < MaxCalls
    /\ Handle(t, op, "", 2, handle_xastore(frames[t], heap, op))

Get_field(t, field_key) ==
    /\ calls < MaxCalls
    /\ Handle(t, "getfield", field_key[1], 0,
              handle_getfield(frames[t], heap, ma, class_id_of(ma, "Base"), field_key))

Put_field(t, field_key) ==
    /\ calls < MaxCalls
    /\ Handle(t, "putfield", field_key[1], 1,
              handle_putfield(frames[t], heap, ma, class_id_of(ma, "Base"), field_key))

Invoke_special(t, method_key) ==
    /\ calls < MaxCalls
    /\ Handle(t, "invokespecial", method_key[1], params_len(method_key[2]),
              handle_invokespecial(frames[t], heap, ma, class_id_of(ma, "Recv"),
                                   method_key))

ReceiverFieldKeys == {<<"f1", "B">>, <<"f2", "J">>}

SpecialKeys == {<<init_sym, "()V">>, <<"vi", "(I)V">>}

NextReceiver ==
    \/ Array_length(1)
    \/ Array_load(1)
    \/ \E op \in {"iastore", "aastore"} : Array_store(1, op)
    \/ \E k \in ReceiverFieldKeys : Get_field(1, k)
    \/ \E k \in ReceiverFieldKeys : Put_field(1, k)
    \/ \E k \in {<<"vi", "(I)V">>, <<"v0", "()V">>} : Invoke_virtual(1, k)
    \/ \E k \in {<<"ii", "(I)V">>, <<"i0", "()V">>} :
          Invoke_interface(1, k, invokeinterface_count(k[2]))
    \/ \E k \in SpecialKeys : Invoke_special(1, k)

SpecReceiver == InitReceiver /\ [][NextReceiver]_vars

\* The instruction just handled found null where its receiver or array
\* reference belongs, the cells above it being what the instruction takes.
NullReceiver ==
    LET ops == Top(frames[1]).operands
        at(d) == ops[Len(ops) - d]
    IN /\ ev'.type \in {"getfield", "putfield", "arraylength", "iaload", "iastore",
                        "aastore", "invokevirtual", "invokespecial",
                        "invokeinterface"}
       /\ Len(ops) > ev'.n
       /\ at(ev'.n).tag = "Null"
       /\ ev'.type \in {"iaload"} => at(0).tag = "Integer"
       /\ ev'.type = "iastore" => at(0).tag = "Integer" /\ at(1).tag = "Integer"
       /\ ev'.type = "aastore" => at(0).tag \in {"Ref", "Null"} /\ at(1).tag = "Integer"

\* C25 (null receiver): getfield, putfield, arraylength, an array load or
\* store and every invoke with a receiver (invokevirtual, invokespecial,
\* invokeinterface), handled with null as the receiver or array reference,
\* end in a NullPointerException: no callee frame was pushed, the heap is
\* as it was and no object of it was read.
C25_NullReceiver ==
    [][NullReceiver =>
          /\ ~ev'.ok
          /\ ev'.inp[1] = "NullPointerException"
          /\ ev'.id = 0
          /\ ev'.inp[2] = {}
          /\ heap' = heap
          /\ Len(frames'[1]) = Len(frames[1])]_vars

\* An invokespecial of Recv.vi(int) was handled on a stack that ends with
\* null and an int.
C25_Witness ==
    /\ ev.type = "invokespecial" /\ ev.name = "vi" /\ calls = 1
    /\ Len(ev.stack) = 1 /\ ev.stack[1].tag = "Null"
    /\ Len(Top(frames[1]).operands) = 0

(***************************************************************************)
(* Integer arithmetic.  An int is a number of the i32 range and a long is  *)
(* <<high, low>>, its two i32 halves; the wrapping operations of the host  *)
(* are carried out on the two's-complement bytes, lowest first.            *)
(***************************************************************************)
bytes_of_i64(v) == i32_to_le(v[2]) \o i32_to_le(v[1])

i64_of_bytes(b) == <<le_to_i32(SubSeq(b, 5, 8)), le_to_i32(SubSeq(b, 1, 4))>>

RECURSIVE add_bytes(_, _, _, _)
add_bytes(a, b, i, carry) ==
    IF i > Len(a) THEN <<>>
    ELSE With(a[i] + b[i] + carry, LAMBDA sum :
              <<sum % 256>> \o add_bytes(a, b, i + 1, sum \div 256))

not_bytes(a) == [i \in 1..Len(a) |-> 255 - a[i]]

zero_bytes(w) == [i \in 1..w |-> 0]

\* wrapping_add, wrapping_sub, wrapping_neg and wrapping_mul of a width
wrapping_add_bytes(a, b) ==
    With(a, LAMBDA x : With(b, LAMBDA y : add_bytes(x, y, 1, 0)))

wrapping_sub_bytes(a, b) ==
    With(a, LAMBDA x : With(not_bytes(b), LAMBDA y : add_bytes(x, y, 1, 1)))

wrapping_neg_bytes(a) ==
    With(not_bytes(a), LAMBDA x :
    With(zero_bytes(Len(x)), LAMBDA z : add_bytes(x, z, 1, 1)))

\* the products that fall on byte k
RECURSIVE column(_, _, _, _)
column(a, b, k, i) ==
    IF i > k THEN 0 ELSE a[i] * b[k + 1 - i] + column(a, b, k, i + 1)

RECURSIVE mul_bytes(_, _, _, _)
mul_bytes(a, b, k, carry) ==
    IF k > Len(a) THEN <<>>
    ELSE With(column(a, b, k, 1) + carry, LAMBDA sum :
              <<sum % 256>> \o mul_bytes(a, b, k + 1, sum \div 256))

wrapping_mul_bytes(a, b) ==
    With(a, LAMBDA x : With(b, LAMBDA y : mul_bytes(x, y, 1, 0)))

RECURSIVE less_bytes(_, _, _)
less_bytes(a, b, i) ==
    IF i = 0 THEN FALSE
    ELSE IF a[i] # b[i] THEN a[i] < b[i]
    ELSE less_bytes(a, b, i - 1)

\* a magnitude times one byte
RECURSIVE scale_bytes(_, _, _, _)
scale_bytes(a, q, i, carry) ==
    IF i > Len(a) THEN <<>>
    ELSE With(a[i] * q + carry, LAMBDA sum :
              <<sum % 256>> \o scale_bytes(a, q, i + 1, sum \div 256))

\* the largest q below 2 * b with d1 * q <= r1, found a bit at a time from
\* acc upward
RECURSIVE quotient_byte(_, _, _, _)
quotient_byte(r1, d1, acc, b) ==
    IF b = 0 THEN acc
    ELSE With(~less_bytes(r1, scale_bytes(d1, acc + b, 1, 0), Len(r1)),
              LAMBDA fits : quotient_byte(r1, d1, IF fits THEN acc + b ELSE acc,
                                          b \div 2))

\* One byte of long division: the remainder r, a byte wider than the
\* operands, takes the next byte of the dividend, and the quotient's byte
\* and the new remainder come out.
divmod_step(byte, d, r) ==
    With(<<byte>> \o SubSeq(r, 1, Len(r) - 1), LAMBDA r1 :
    With(d \o <<0>>, LAMBDA d1 :
    With(quotient_byte(r1, d1, 0, 128), LAMBDA digit :
         [digit |-> digit,
          r |-> wrapping_sub_bytes(r1, scale_bytes(d1, digit, 1, 0))])))

\* Division of magnitudes, the dividend's bytes taken from the highest
\* down; q collects the quotient's bytes.
RECURSIVE udivmod_bytes(_, _, _, _, _)
udivmod_bytes(n, d, i, r, q) ==
    IF i = 0 THEN [q |-> q, r |-> r]
    ELSE With(divmod_step(n[i], d, r), LAMBDA st :
              udivmod_bytes(n, d, i - 1, st.r, <<st.digit>> \o q))

is_negative(a) == a[Len(a)] >= 128

magnitude_bytes(a) == IF is_negative(a) THEN wrapping_neg_bytes(a) ELSE a

sdivmod_bytes(a, b) ==
    With(magnitude_bytes(a), LAMBDA n :
    With(magnitude_bytes(b), LAMBDA d :
         udivmod_bytes(n, d, Len(n), zero_bytes(Len(n) + 1), <<>>)))

\* wrapping_div: the quotient truncated toward zero; MIN / -1 is MIN.
wrapping_div_bytes(a, b) ==
    With(sdivmod_bytes(a, b), LAMBDA dm :
         IF is_negative(a) # is_negative(b) THEN wrapping_neg_bytes(dm.q) ELSE dm.q)

\* wrapping_rem: the remainder has the dividend's sign; MIN % -1 is 0.
wrapping_rem_bytes(a, b) ==
    With(sdivmod_bytes(a, b), LAMBDA dm :
    With(SubSeq(dm.r, 1, Len(a)), LAMBDA r :
         IF is_negative(a) THEN wrapping_neg_bytes(r) ELSE r))

\* The operators of i32 and i64.  kind is "wrapping" for a wrapping_ method
\* and "plain" for the operator written +, -, * or %: a plain operator whose
\* result does not fit panics when the build checks overflow and wraps when
\* it does not, and a plain % of MIN by -1 panics in every build.
ArithResult(panic, v) == [panic |-> panic, v |-> v]

i32_op(f(_, _), v1, v2) ==
    With(i32_to_le(v1), LAMBDA a : With(i32_to_le(v2), LAMBDA b : le_to_i32(f(a, b))))

i64_op(f(_, _), v1, v2) ==
    With(bytes_of_i64(v1), LAMBDA a :
    With(bytes_of_i64(v2), LAMBDA b : With(f(a, b), LAMBDA c : i64_of_bytes(c))))

i32_add_overflows(v1, v2) ==
    \/ v2 > 0 /\ v1 > I32Max - v2
    \/ v2 < 0 /\ v1 < I32Min - v2

i32_sub_overflows(v1, v2) ==
    \/ v2 > 0 /\ v1 < I32Min + v2
    \/ v2 < 0 /\ v1 > I32Max + v2

i32_add(v1, v2, overflow_checks) ==
    ArithResult(overflow_checks /\ i32_add_overflows(v1, v2),
                i32_op(wrapping_add_bytes, v1, v2))

i32_sub(v1, v2, overflow_checks) ==
    ArithResult(overflow_checks /\ i32_sub_overflows(v1, v2),
                i32_op(wrapping_sub_bytes, v1, v2))

i32_neg(v, overflow_checks) ==
    ArithResult(overflow_checks /\ v = I32Min, With(i32_to_le(v), LAMBDA a : le_to_i32(wrapping_neg_bytes(a))))

i32_rem(v1, v2) ==
    ArithResult(v1 = I32Min /\ v2 = -1, i32_op(wrapping_rem_bytes, v1, v2))

I64Min == <<I32Min, 0>>

i64_rem(v1, v2) ==
    ArithResult(v1 = I64Min /\ v2 = <<-1, -1>>, i64_op(wrapping_rem_bytes, v1, v2))

\* FrameStack::pop_long_val
pop_long_val(fr) ==
    IF Len(Top(fr).operands) = 0 \/ top_operand(fr).tag # "Long"
    THEN [ok |-> FALSE, err |-> "Todo", frames |-> fr, v |-> <<0, 0>>]
    ELSE [ok |-> TRUE, err |-> "", frames |-> pop_operand(fr), v |-> top_operand(fr).v]

\* What an arithmetic handler returns: Ok with the frames it left, a
\* JavaException, another error, or a panic of the host.
ArithOk(fr, v1, v2) == [kind |-> "ok", exc |-> "", frames |-> fr, inp |-> <<v1, v2>>]
ArithErr(kind, exc, fr, v1, v2) == [kind |-> kind, exc |-> exc, frames |-> fr, inp |-> <<v1, v2>>]

\* A handler of two int operands: value2 is popped, then value1, and r is
\* what the handler computes from them; by_zero is set for idiv and irem.
int_binary(fr, by_zero, r(_, _)) ==
    LET v2 == pop_int_val(fr)
        v1 == pop_int_val(v2.frames)
    IN IF ~v2.ok THEN ArithErr("fatal", v2.err, v2.frames, 0, 0)
       ELSE IF ~v1.ok THEN ArithErr("fatal", v1.err, v1.frames, 0, v2.v)
       ELSE IF by_zero /\ v2.v = 0
       THEN ArithErr("jexc", "ArithmeticException", v1.frames, v1.v, v2.v)
       ELSE With(r(v1.v, v2.v), LAMBDA res :
               IF res.panic THEN ArithErr("panic", "", v1.frames, v1.v, v2.v)
               ELSE ArithOk(push_operand(v1.frames, Integer(res.v)), v1.v, v2.v))

\* The same for two long operands.
long_binary(fr, by_zero, r(_, _)) ==
    LET v2 == pop_long_val(fr)
        v1 == pop_long_val(v2.frames)
    IN IF ~v2.ok THEN ArithErr("fatal", v2.err, v2.frames, <<0, 0>>, <<0, 0>>)
       ELSE IF ~v1.ok THEN ArithErr("fatal", v1.err, v1.frames, <<0, 0>>, v2.v)
       ELSE IF by_zero /\ v2.v = <<0, 0>>
       THEN ArithErr("jexc", "ArithmeticException", v1.frames, v1.v, v2.v)
       ELSE With(r(v1.v, v2.v), LAMBDA res :
               IF res.panic THEN ArithErr("panic", "", v1.frames, v1.v, v2.v)
               ELSE ArithOk(push_operand(v1.frames, Long(res.v)), v1.v, v2.v))

\* handle_iadd: value1.wrapping_add(value2)
handle_iadd(fr) ==
    int_binary(fr, FALSE, LAMBDA v1, v2 : i32_add(v1, v2, FALSE))

\* handle_isub: v1 - v2
handle_isub(fr, overflow_checks) ==
    int_binary(fr, FALSE, LAMBDA v1, v2 : i32_sub(v1, v2, overflow_checks))

\* handle_imul: v1.wrapping_mul(v2)
handle_imul(fr) ==
    int_binary(fr, FALSE,
               LAMBDA v1, v2 : ArithResult(FALSE, i32_op(wrapping_mul_bytes, v1, v2)))

\* handle_idiv with the zero test left out: wrapping_div panics on zero.
handle_idiv_untested(fr) ==
    int_binary(fr, FALSE, LAMBDA v1, v2 :
        ArithResult(v2 = 0, IF v2 = 0 THEN 0 ELSE wrapping_div(v1, v2)))

\* handle_idiv: value1.wrapping_div(value2) after the zero test
handle_idiv(fr) ==
    int_binary(fr, TRUE, LAMBDA v1, v2 : ArithResult(FALSE, wrapping_div(v1, v2)))

\* handle_irem: v1 % v2 after the zero test
handle_irem(fr) == int_binary(fr, TRUE, i32_rem)

\* handle_ineg: -v
handle_ineg(fr, overflow_checks) ==
    LET v == pop_int_val(fr)
        r == i32_neg(v.v, overflow_checks)
    IN IF ~v.ok THEN ArithErr("fatal", v.err, v.frames, 0, 0)
       ELSE IF r.panic THEN ArithErr("panic", "", v.frames, v.v, 0)
       ELSE ArithOk(push_operand(v.frames, Integer(r.v)), v.v, 0)

\* handle_iinc: local idx becomes value + (const_val as i32)
handle_iinc(fr, idx, const_val, overflow_checks) ==
    LET locals == Top(fr).locals
        has_int == idx + 1 \in DOMAIN locals /\ locals[idx + 1].tag = "Integer"
        value == locals[idx + 1].v
        r == i32_add(value, const_val, overflow_checks)
    IN IF ~has_int THEN ArithErr("fatal", "Todo", fr, 0, const_val)
       ELSE IF r.panic THEN ArithErr("panic", "", fr, value, const_val)
       ELSE ArithOk([fr EXCEPT ![Len(fr)].locals[idx + 1] = Integer(r.v)],
                    value, const_val)

\* handle_ladd, handle_lsub, handle_lmul: wrapping_add, wrapping_sub,
\* wrapping_mul
handle_ladd(fr) ==
    long_binary(fr, FALSE,
                LAMBDA v1, v2 : ArithResult(FALSE, i64_op(wrapping_add_bytes, v1, v2)))

handle_lsub(fr) ==
    long_binary(fr, FALSE,
                LAMBDA v1, v2 : ArithResult(FALSE, i64_op(wrapping_sub_bytes, v1, v2)))

handle_lmul(fr) ==
    long_binary(fr, FALSE,
                LAMBDA v1, v2 : ArithResult(FALSE, i64_op(wrapping_mul_bytes, v1, v2)))

\* handle_ldiv: v1.wrapping_div(v2) after the zero test
handle_ldiv(fr) ==
    long_binary(fr, TRUE,
                LAMBDA v1, v2 : ArithResult(FALSE, i64_op(wrapping_div_bytes, v1, v2)))

\* handle_lrem: v1 % v2 after the zero test
handle_lrem(fr) == long_binary(fr, TRUE, i64_rem)

\* The operands the instructions are run on.  An int operand and a long
\* operand are picked by the same index.
IntOperands == <<I32Min, -1, 0, 1, 2, 7, I32Max, -7>>

LongOperands ==
    <<I64Min, <<-1, -1>>, <<0, 0>>, <<0, 1>>, <<0, 2>>, <<0, 7>>, <<I32Max, -1>>, <<1, 0>>>>

CalcPcs == {0, 1, 2, 3, 4, 5, 6, 9, 12, 13, 14, 15, 16}

\* Thread 1 is inside Calc.guarded or Calc.unguarded at the start of one of
\* the arithmetic instructions, its operands on the stack and an int in
\* local 0.
InitCalc ==
    /\ classpath = ClassPathOf("plain", "override")
    /\ \E basic \in {preload_basic_classes(MethodArea_new(classpath))} :
       \E r \in {get_class_id_or_load(basic, "Calc", "asc")} :
       \E name \in {"guarded", "unguarded"}, pc \in CalcPcs :
       \E x \in DOMAIN IntOperands, y \in DOMAIN IntOperands :
          LET method_id == get_static_method_id_rec(r.ma, r.id, <<name, "(I)V">>)
              op == Instruction_new_at(CalcCode, pc).op
              operands == CASE op \in {"iadd", "isub", "imul", "idiv", "irem"} ->
                                 <<Integer(IntOperands[x]), Integer(IntOperands[y])>>
                            [] op = "ineg" -> <<Integer(IntOperands[x])>>
                            [] op = "iinc" -> <<>>
                            [] OTHER -> <<Long(LongOperands[x]), Long(LongOperands[y])>>
          IN /\ ma = r.ma
             /\ frames = [t \in Threads |->
                            IF t = 1
                            THEN <<[JavaFrame_new(method_id, <<Integer(IntOperands[y])>>)
                                    EXCEPT !.operands = operands, !.pc = pc]>>
                            ELSE <<>>]
    /\ heap = Heap_new
    /\ ctl = [t \in Threads |-> [acts |-> <<>>, sig |-> NoSig]]
    /\ result = [t \in Threads |-> "none"]
    /\ calls = 0
    /\ ev = NoEv
    /\ hist = [first |-> EmptyMap, failed_since |-> {},
               clinit_count |-> EmptyMap, transitions |-> EmptyMap, allocs |-> <<>>]

CalcIns(t) == Instruction_new_at(get_method(ma, Top(frames[t]).method_id).code,
                                 Top(frames[t]).pc)

AtOp(t, op) ==
    /\ calls < MaxCalls
    /\ result[t] = "none"
    /\ Len(frames[t]) > 0
    /\ CalcIns(t).op = op

\* What one turn of interpret_method's loop leaves behind for thread t:
\* the frames, the thread's result, the method area and heap, and the record
\* of the turn.
CalcTurn(t, overflow_checks, r, outcome, fr, m, h, ref) ==
    /\ calls' = calls + 1
    /\ frames' = [frames EXCEPT ![t] = fr]
    /\ result' = [result EXCEPT ![t] =
                     CASE outcome \in {"ok", "caught"} -> "none"
                       [] outcome = "unwind" -> "thrown"
                       [] OTHER -> outcome]
    /\ ma' = m
    /\ heap' = h
    /\ ev' = [NoEv EXCEPT !.type = "arith", !.name = CalcIns(t).op,
                          !.cls = outcome, !.ok = outcome = "ok",
                          !.inp = r.inp, !.pc = Top(frames[t]).pc,
                          !.native = overflow_checks,
                          !.id = Top(frames[t]).method_id,
                          !.n = Len(Top(frames[t]).operands),
                          !.ref = ref,
                          !.stack = CASE Len(fr) = 0 -> <<>>
                                      [] CalcIns(t).op = "iinc" -> <<Top(fr).locals[1]>>
                                      [] OTHER -> Top(fr).operands]
    /\ UNCHANGED <<classpath, ctl, hist>>

\* One turn of interpret_method's loop on an arithmetic instruction: r is
\* what the handler returned.  Ok moves the pc on; a JavaException becomes
\* an object and goes to find_exception_handler, which either enters the
\* handler or lets the frame go with JavaExceptionThrown; any other error
\* leaves the loop, and a panic ends the process.
CalcLoop(t, overflow_checks, r) ==
    \E mapped \in {IF r.kind = "jexc"
                   THEN map_rust_error_to_java_exception(ma, heap, r.exc)
                   ELSE [ok |-> FALSE, ma |-> ma, heap |-> heap, ref |-> 0]} :
    \E fh \in {IF mapped.ok
               THEN find_exception_handler(mapped.ma, mapped.heap, r.frames,
                                           Top(frames[t]).method_id, mapped.ref)
               ELSE [found |-> FALSE, frames |-> r.frames, handler_pc |-> 0]} :
       LET outcome == CASE r.kind = "ok" -> "ok"
                        [] r.kind = "panic" -> "panic"
                        [] r.kind = "fatal" -> "fatal"
                        [] ~mapped.ok -> "fatal"
                        [] fh.found -> "caught"
                        [] OTHER -> "unwind"
           fr == CASE outcome = "ok" ->
                         increment_pc(r.frames, instr_byte_size(CalcIns(t)))
                   [] outcome = "caught" -> fh.frames
                   [] outcome = "unwind" -> pop_frame(r.frames)
                   [] OTHER -> r.frames
       IN CalcTurn(t, overflow_checks, r, outcome, fr, mapped.ma, mapped.heap,
                   mapped.ref)

\* The same turn for a handler with no throw_exception! in it: the Err arm
\* sees only errors that are not Java exceptions, and they leave the loop.
CalcLoopNoThrow(t, overflow_checks, r) ==
    LET outcome == CASE r.kind = "ok" -> "ok"
                     [] r.kind = "panic" -> "panic"
                     [] OTHER -> "fatal"
        fr == IF outcome = "ok"
              THEN increment_pc(r.frames, instr_byte_size(CalcIns(t)))
              ELSE r.frames
    IN CalcTurn(t, overflow_checks, r, outcome, fr, ma, heap, 0)

Calc_iadd(t) ==
    /\ AtOp(t, "iadd")
    /\ \E r \in {handle_iadd(frames[t])} : CalcLoopNoThrow(t, FALSE, r)

Calc_isub(t, overflow_checks) ==
    /\ AtOp(t, "isub")
    /\ \E r \in {handle_isub(frames[t], overflow_checks)} : CalcLoopNoThrow(t, overflow_checks, r)

Calc_imul(t) ==
    /\ AtOp(t, "imul")
    /\ \E r \in {handle_imul(frames[t])} : CalcLoopNoThrow(t, FALSE, r)

Calc_idiv(t) ==
    /\ AtOp(t, "idiv")
    /\ \E r \in {handle_idiv(frames[t])} : CalcLoop(t, FALSE, r)

Calc_irem(t) ==
    /\ AtOp(t, "irem")
    /\ \E r \in {handle_irem(frames[t])} : CalcLoop(t, FALSE, r)

Calc_ineg(t, overflow_checks) ==
    /\ AtOp(t, "ineg")
    /\ \E r \in {handle_ineg(frames[t], overflow_checks)} : CalcLoopNoThrow(t, overflow_checks, r)

Calc_iinc(t, overflow_checks) ==
    /\ AtOp(t, "iinc")
    /\ \E r \in {handle_iinc(frames[t], 0, CalcIns(t).n, overflow_checks)} :
          CalcLoopNoThrow(t, overflow_checks, r)

Calc_ladd(t) ==
    /\ AtOp(t, "ladd")
    /\ \E r \in {handle_ladd(frames[t])} : CalcLoopNoThrow(t, FALSE, r)

Calc_lsub(t) ==
    /\ AtOp(t, "lsub")
    /\ \E r \in {handle_lsub(frames[t])} : CalcLoopNoThrow(t, FALSE, r)

Calc_lmul(t) ==
    /\ AtOp(t, "lmul")
    /\ \E r \in {handle_lmul(frames[t])} : CalcLoopNoThrow(t, FALSE, r)

Calc_ldiv(t) ==
    /\ AtOp(t, "ldiv")
    /\ \E r \in {handle_ldiv(frames[t])} : CalcLoop(t, FALSE, r)

Calc_lrem(t) ==
    /\ AtOp(t, "lrem")
    /\ \E r \in {handle_lrem(frames[t])} : CalcLoop(t, FALSE, r)

NextCalc ==
    \/ Calc_iadd(1)
    \/ \E overflow_checks \in BOOLEAN : Calc_isub(1, overflow_checks)
    \/ Calc_imul(1)
    \/ Calc_idiv(1)
    \/ Calc_irem(1)
    \/ \E overflow_checks \in BOOLEAN : Calc_ineg(1, overflow_checks)
    \/ \E overflow_checks \in BOOLEAN : Calc_iinc(1, overflow_checks)
    \/ Calc_ladd(1)
    \/ Calc_lsub(1)
    \/ Calc_lmul(1)
    \/ Calc_ldiv(1)
    \/ Calc_lrem(1)

SpecCalc == InitCalc /\ [][NextCalc]_vars

\* The instruction just run had its operands and no zero divisor.
Computed ==
    /\ ev.type = "arith"
    /\ ev.cls \in {"ok", "panic"}

\* What the instructions are to leave: the sum and the difference, less or
\* plus 2^32 where they leave the range, and the products, quotients and
\* remainders of some operands, those at the ends of the range among them.
IntExpected(op, v1, v2) ==
    CASE op \in {"iadd", "iinc"} /\ ~i32_add_overflows(v1, v2) -> {v1 + v2}
      [] op \in {"iadd", "iinc"} /\ v2 > 0 -> {(v1 + I32Min) + (v2 + I32Min)}
      [] op \in {"iadd", "iinc"} -> {(v1 - I32Min) + (v2 - I32Min)}
      [] op = "isub" /\ ~i32_sub_overflows(v1, v2) -> {v1 - v2}
      [] op = "isub" /\ v2 < 0 -> {(v1 + I32Min) - (v2 - I32Min)}
      [] op = "isub" -> {(v1 - I32Min) - (v2 + I32Min)}
      [] op = "imul" /\ v1 \in -7..7 /\ v2 \in -7..7 -> {v1 * v2}
      [] op = "imul" /\ v1 = I32Min /\ v2 = -1 -> {I32Min}
      [] op = "imul" /\ v1 = I32Max /\ v2 = 2 -> {-2}
      [] op = "imul" /\ v1 = I32Max /\ v2 = I32Max -> {1}
      [] op = "idiv" /\ v1 = I32Min /\ v2 = -1 -> {I32Min}
      [] op = "idiv" /\ v1 # I32Min /\ v2 # I32Min -> {trunc_div(v1, v2)}
      [] op = "irem" /\ v1 = I32Min /\ v2 = -1 -> {0}
      [] op = "irem" /\ v1 # I32Min /\ v2 # I32Min -> {v1 - trunc_div(v1, v2) * v2}
      [] op = "ineg" /\ v1 = I32Min -> {I32Min}
      [] op = "ineg" /\ v1 # I32Min -> {-v1}
      [] OTHER -> {}

I64Max == <<I32Max, -1>>

LongExpected(op, v1, v2) ==
    CASE op = "ladd" /\ v1 = I64Max /\ v2 = <<0, 1>> -> {I64Min}
      [] op = "ladd" /\ v1 = <<0, 7>> /\ v2 = <<-1, -1>> -> {<<0, 6>>}
      [] op = "ladd" /\ v1 = <<1, 0>> /\ v2 = <<-1, -1>> -> {<<0, -1>>}
      [] op = "lsub" /\ v1 = I64Min /\ v2 = <<0, 1>> -> {I64Max}
      [] op = "lsub" /\ v1 = <<0, 0>> /\ v2 = <<0, 1>> -> {<<-1, -1>>}
      [] op = "lsub" /\ v1 = <<1, 0>> /\ v2 = <<0, 1>> -> {<<0, -1>>}
      [] op = "lmul" /\ v1 = I64Min /\ v2 = <<-1, -1>> -> {I64Min}
      [] op = "lmul" /\ v1 = I64Max /\ v2 = <<0, 2>> -> {<<-1, -2>>}
      [] op = "lmul" /\ v1 = <<1, 0>> /\ v2 = <<1, 0>> -> {<<0, 0>>}
      [] op = "lmul" /\ v1 = <<0, 7>> /\ v2 = <<-1, -1>> -> {<<-1, -7>>}
      [] op = "ldiv" /\ v1 = I64Min /\ v2 = <<-1, -1>> -> {I64Min}
      [] op = "ldiv" /\ v1 = <<1, 0>> /\ v2 = <<0, 2>> -> {<<0, I32Min>>}
      [] op = "ldiv" /\ v1 = <<0, 7>> /\ v2 = <<-1, -1>> -> {<<-1, -7>>}
      [] op = "ldiv" /\ v1 = I64Max /\ v2 = I64Max -> {<<0, 1>>}
      [] op = "lrem" /\ v1 = I64Min /\ v2 = <<-1, -1>> -> {<<0, 0>>}
      [] op = "lrem" /\ v1 = <<1, 0>> /\ v2 = <<0, 7>> -> {<<0, 4>>}
      [] op = "lrem" /\ v1 = I64Min /\ v2 = <<0, 7>> -> {<<-1, -1>>}
      [] OTHER -> {}

\* C26 (wrapping arithmetic): iadd, isub, imul, idiv, irem, ineg, iinc and the
\* long instructions ladd, lsub, lmul, ldiv, lrem, run on operands with a
\* divisor other than zero, never end the process, whatever the build: they
\* leave the two's-complement result of their width (MIN - 1 = MAX,
\* -MIN = MIN, MIN / -1 = MIN, MIN % -1 = 0).
C26_WrappingArithmetic ==
    Computed =>
       /\ ev.cls = "ok"
       /\ result[1] # "panic"
       /\ LET op == ev.name
              v1 == ev.inp[1]
              v2 == ev.inp[2]
          IN IF op \in {"ladd", "lsub", "lmul", "ldiv", "lrem"}
             THEN \A e \in LongExpected(op, v1, v2) : Top(ev.stack) = Long(e)
             ELSE \A e \in IntExpected(op, v1, v2) : Top(ev.stack) = Integer(e)

\* irem was run on MIN and -1.
C26_Witness ==
    /\ ev.type = "arith" /\ ev.name = "irem"
    /\ ev.inp = <<I32Min, -1>>

\* A division or remainder instruction was run with both operands on the
\* stack and a divisor of zero.
DivisionOps == {"idiv", "irem", "ldiv", "lrem"}

ZeroDivisor ==
    /\ ev.type = "arith"
    /\ ev.name \in DivisionOps
    /\ ev.n = 2
    /\ IF ev.name \in {"idiv", "irem"} THEN ev.inp[2] = 0 ELSE ev.inp[2] = <<0, 0>>

\* C27 (division by zero): idiv, irem, ldiv and lrem with a zero divisor
\* raise ArithmeticException whatever the dividend: an object of that class
\* is created, no result is pushed, and the exception goes the way of every
\* Java exception; in the method whose table covers the pc the handler is
\* entered with the exception alone on the stack, in the method without a
\* table the frame is left and the exception goes to the caller.
C27_DivisionByZero ==
    ZeroDivisor =>
       /\ ev.cls \in {"caught", "unwind"}
       /\ ev.ref # 0
       /\ get_class(ma, Heap_get_class_id(heap, ev.ref)).name = "ArithmeticException"
       /\ IF get_method(ma, ev.id).etable # <<>>
          THEN /\ ev.cls = "caught"
               /\ result[1] = "none"
               /\ Top(frames[1]).pc = get_method(ma, ev.id).etable[1].handler_pc
               /\ Top(frames[1]).operands = <<Ref(ev.ref)>>
          ELSE /\ ev.cls = "unwind"
               /\ result[1] = "thrown"
               /\ frames[1] = <<>>

\* lrem of i64::MIN by zero was caught by the handler of its method.
C27_Witness ==
    /\ ZeroDivisor
    /\ ev.name = "lrem"
    /\ ev.inp[1] = I64Min
    /\ ev.cls = "caught"

\* ---------------------------------------------------------------------
\* Unsafe.compareAndSetInt, compareAndSetLong, compareAndSetReference
\* ---------------------------------------------------------------------
\* Each native takes the heap's read lock for read_field and lets it go at
\* the end of that statement, compares, and then takes the write lock for
\* write_field: a thread is between the two when ctl[t].pc is "read".

CasKinds == {"Int", "Long", "Reference"}

\* the object the threads share, and a second one to refer to
CasObject == Heap_new.allocated
CasOther == CasObject + AlignUp(ObjectHeaderSize + 24, 8)

\* the field each native is pointed at, with the value it holds at first
CasOffset == [Int |-> 0, Long |-> 8, Reference |-> 16]
CasFirst == [Int |-> Integer(7), Long |-> Long(<<0, 5>>), Reference |-> Null]

\* args[3] and args[4] of the calls tried
CasExpected ==
    [Int |-> <<Integer(7), Integer(0)>>,
     Long |-> <<Long(<<0, 5>>), Long(<<5, 0>>)>>,
     Reference |-> <<Null, Ref(CasObject)>>]
CasNew ==
    [Int |-> <<Integer(1), Integer(2)>>,
     Long |-> <<Long(<<0, 1>>), Long(<<1, 0>>)>>,
     Reference |-> <<Ref(CasObject), Ref(CasOther)>>]

CasIdle == [pc |-> "idle", kind |-> "", expected |-> Null, new_value |-> Null,
            current |-> Null, ret |-> Null]

InitCas ==
    /\ classpath = ClassPathOf("plain", "override")
    /\ \E basic \in {preload_basic_classes(MethodArea_new(classpath))} :
       \E a \in {alloc_instance(Heap_new, 24, basic.java_lang_object_id)} :
       \E b \in {alloc_instance(a.heap, 24, basic.java_lang_object_id)} :
       \E w1 \in {write_field(b.heap, CasObject, CasOffset.Int, CasFirst.Int, "Int")} :
       \E w2 \in {write_field(w1.heap, CasObject, CasOffset.Long, CasFirst.Long,
                              "Long")} :
          /\ a.ref = CasObject /\ b.ref = CasOther
          /\ ma = basic
          /\ heap = w2.heap
    /\ frames = [t \in Threads |-> <<>>]
    /\ ctl = [t \in Threads |-> CasIdle]
    /\ result = [t \in Threads |-> "none"]
    /\ calls = 0
    /\ ev = NoEv
    /\ hist = [first |-> EmptyMap, failed_since |-> {},
               clinit_count |-> EmptyMap, transitions |-> EmptyMap, allocs |-> <<>>]

\* The native is entered by thread t: the arguments are matched.
Cas_call(t, kind, expected, new_value) ==
    /\ calls < MaxCalls
    /\ ctl[t].pc = "idle"
    /\ ctl' = [ctl EXCEPT ![t] = [CasIdle EXCEPT !.pc = "called", !.kind = kind,
                                                 !.expected = expected,
                                                 !.new_value = new_value]]
    /\ calls' = calls + 1
    /\ ev' = [NoEv EXCEPT !.type = "cas_call", !.name = kind, !.thread = t]
    /\ UNCHANGED <<classpath, ma, heap, frames, result, hist>>

\* vm.heap_read().read_field(object, offset, type)
Cas_read(t) ==
    /\ ctl[t].pc = "called"
    /\ ctl' = [ctl EXCEPT ![t].pc = "read",
                          ![t].current = read_field(heap, CasObject,
                                                    CasOffset[ctl[t].kind],
                                                    ctl[t].kind)]
    /\ ev' = [NoEv EXCEPT !.type = "cas_read", !.name = ctl[t].kind, !.thread = t]
    /\ UNCHANGED <<classpath, ma, heap, frames, result, calls, hist>>

\* if current == expected { vm.heap_write().write_field(..); Ok(1) } else
\* { Ok(0) }
Cas_write(t) ==
    /\ ctl[t].pc = "read"
    /\ \E w \in {IF ctl[t].current = ctl[t].expected
                 THEN write_field(heap, CasObject, CasOffset[ctl[t].kind],
                                  ctl[t].new_value, ctl[t].kind)
                 ELSE [ok |-> FALSE, heap |-> heap]} :
          /\ heap' = w.heap
          /\ ctl' = [ctl EXCEPT ![t].pc = "done",
                                ![t].ret = Integer(IF w.ok THEN 1 ELSE 0)]
          /\ result' = [result EXCEPT ![t] = "returned"]
          /\ ev' = [NoEv EXCEPT !.type = "cas_write", !.name = ctl[t].kind,
                                !.thread = t, !.ok = w.ok]
    /\ UNCHANGED <<classpath, ma, frames, calls, hist>>

NextCas ==
    \E t \in Threads :
       \/ \E kind \in CasKinds, i \in 1..2, j \in 1..2 :
             Cas_call(t, kind, CasExpected[kind][i], CasNew[kind][j])
       \/ Cas_read(t)
       \/ Cas_write(t)

SpecCas == InitCas /\ [][NextCas]_vars

\* Both threads have finished a compare-and-set of the same field, each
\* expecting the value the field held at first, with different new values.
CasRace ==
    /\ \A t \in Threads : ctl[t].pc = "done"
    /\ ctl[1].kind = ctl[2].kind
    /\ \A t \in Threads : ctl[t].expected = CasFirst[ctl[t].kind]
    /\ ctl[1].new_value # ctl[2].new_value

CasField(kind) == read_field(heap, CasObject, CasOffset[kind], kind)

\* C28 (atomic compare-and-set): when two threads compare-and-set the same
\* field with the same expected value, the field's current one, and
\* different new values, exactly one of them returns true and the field is
\* left with the winner's value.
C28_CasAtomic ==
    CasRace =>
       \E t \in Threads :
          /\ ctl[t].ret = Integer(1)
          /\ ctl[3 - t].ret = Integer(0)
          /\ CasField(ctl[t].kind) = ctl[t].new_value

\* Two compare-and-sets of the int field raced: both read before either
\* wrote, and both returned true.
C28_Witness ==
    /\ CasRace
    /\ ctl[1].kind = "Int"
    /\ \A t \in Threads : ctl[t].current = CasFirst.Int /\ ctl[t].ret = Integer(1)

\* The calls whose read and write both came before the other thread's read
\* behave as the claim says.
CasInTurn ==
    CasRace /\ (\E t \in Threads : ctl[t].current # CasFirst[ctl[t].kind])
       => \E t \in Threads :
             /\ ctl[t].ret = Integer(1)
             /\ ctl[3 - t].ret = Integer(0)
             /\ CasField(ctl[t].kind) = ctl[t].new_value

\* ---------------------------------------------------------------------
\* The choice of the exception handler
\* ---------------------------------------------------------------------
MaxTable == 2      \* entries of an exception table

\* the entries the tables of Catch.run are made of
CatchEntries ==
    <<ETE(0, 3, 6, ""), ETE(3, 4, 7, "ArithmeticException"),
      ETE(1, 4, 6, "Throwable"), ETE(0, 5, 7, "Exc"),
      ETE(0, 5, 6, "ArithmeticException"), ETE(4, 4, 7, ""),
      ETE(0, 5, 7, "Throwable"), ETE(3, 5, 6, "Exc")>>

\* What a handler hands to interpret_method's loop.
CatchResult(kind, exc, ref, fr) == [kind |-> kind, exc |-> exc, ref |-> ref, frames |-> fr]

\* handle_athrow: pop_obj_val()?, then Err(JavaExceptionThrown(ref))
handle_athrow(fr) ==
    LET o == pop_obj_val(fr)
    IN IF o.ok THEN CatchResult("thrown", "", o.ref, o.frames)
       ELSE CatchResult(IF o.err = "NullPointerException" THEN "jexc" ELSE "fatal",
                        o.err, 0, o.frames)

\* Class Catch is loaded and initialized and its method run is at one of
\* its raising instructions, with an object of class Exc and one of class
\* ArithmeticException on the heap; the exception table of run is any
\* sequence of at most MaxTable of the entries.
InitCatch ==
    /\ \E n \in 0..MaxTable : \E pick \in [1..n -> DOMAIN CatchEntries] :
          classpath = [ClassPathOf("plain", "override") EXCEPT
                          !["Catch"] = CatchFile([i \in 1..n |-> CatchEntries[pick[i]]])]
    /\ \E m \in {load_all(preload_basic_classes(MethodArea_new(classpath)),
                          <<"Catch", "Exc", "ArithmeticException">>, 1)} :
       \E o1 \in {alloc_instance(Heap_new, 0, class_id_of(m, "Exc"))} :
       \E o2 \in {alloc_instance(o1.heap, 0, class_id_of(m, "ArithmeticException"))} :
       \E start \in 1..5 :
          LET at == <<[pc |-> 0, operands |-> <<>>],
                      [pc |-> 3, operands |-> <<Integer(5), Integer(0)>>],
                      [pc |-> 4, operands |-> <<Ref(o1.ref)>>],
                      [pc |-> 4, operands |-> <<Ref(o2.ref)>>],
                      [pc |-> 4, operands |-> <<Null>>]>>[start]
              run == get_static_method_id_rec(m, class_id_of(m, "Catch"),
                                              <<"run", "()V">>)
          IN /\ ma = set_initialized(m, class_id_of(m, "Catch"))
             /\ heap = o2.heap
             /\ frames = [t \in Threads |->
                            IF t = 1
                            THEN <<[JavaFrame_new(run, <<>>)
                                    EXCEPT !.pc = at.pc, !.operands = at.operands]>>
                            ELSE <<>>]
    /\ ctl = [t \in Threads |-> [acts |-> <<>>, sig |-> NoSig]]
    /\ result = [t \in Threads |-> "none"]
    /\ calls = 0
    /\ ev = NoEv
    /\ hist = [invoked_at |-> <<>>]

\* Thread t is in interpret_method's loop at an instruction op.
CatchAt(t, op) ==
    /\ result[t] = "none"
    /\ ctl[t].sig.kind = "none"
    /\ Len(frames[t]) > 0
    /\ CalcIns(t).op = op

\* One turn of interpret_method's loop, r being what the handler returned.
\* raised_at is the pc of the instruction that raised, kept for the record
\* beside the pc that find_exception_handler reads from the frame.
CatchLoop(t, op, r, raised_at, hi) ==
    \E mapped \in {IF r.kind = "jexc"
                   THEN map_rust_error_to_java_exception(ma, heap, r.exc)
                   ELSE [ok |-> r.kind = "thrown", ma |-> ma, heap |-> heap,
                         ref |-> r.ref]} :
    \E fh \in {IF mapped.ok
               THEN find_exception_handler(mapped.ma, mapped.heap, r.frames,
                                           Top(r.frames).method_id, mapped.ref)
               ELSE [found |-> FALSE, frames |-> r.frames, handler_pc |-> 0]} :
       LET outcome == CASE r.kind = "ok" -> "ok"
                        [] ~mapped.ok -> "fatal"
                        [] fh.found -> "caught"
                        [] OTHER -> "unwind"
           fr == CASE outcome = "ok" -> increment_pc(r.frames, instr_byte_size(CalcIns(t)))
                   [] outcome = "caught" -> fh.frames
                   [] outcome = "unwind" -> pop_frame(r.frames)
                   [] OTHER -> r.frames
       IN /\ frames' = [frames EXCEPT ![t] = fr]
          /\ ctl' = [ctl EXCEPT ![t].sig = IF outcome = "unwind"
                                           THEN ThrownSig(mapped.ref) ELSE NoSig]
          /\ result' = [result EXCEPT ![t] =
                           CASE outcome = "fatal" -> "fatal"
                             [] outcome = "unwind" /\ fr = <<>> -> "thrown"
                             [] OTHER -> "none"]
          /\ ma' = mapped.ma
          /\ heap' = mapped.heap
          /\ calls' = calls + 1
          /\ hist' = hi
          /\ ev' = [NoEv EXCEPT !.type = "catch", !.name = op, !.cls = outcome,
                                !.pc = Top(r.frames).pc, !.inp = <<raised_at>>,
                                !.id = Top(r.frames).method_id,
                                !.ref = mapped.ref,
                                !.n = IF fr = <<>> THEN -1 ELSE Top(fr).pc,
                                !.stack = IF fr = <<>> THEN <<>> ELSE Top(fr).operands]
          /\ UNCHANGED classpath

\* handle_iconst
Catch_iconst(t) ==
    /\ CatchAt(t, "iconst")
    /\ CatchLoop(t, "iconst",
                 CatchResult("ok", "", 0, push_operand(frames[t], Integer(CalcIns(t).n))),
                 Top(frames[t]).pc, hist)

\* handle_idiv
Catch_idiv(t) ==
    /\ CatchAt(t, "idiv")
    /\ \E r \in {handle_idiv(frames[t])} :
          CatchLoop(t, "idiv", CatchResult(r.kind, r.exc, 0, r.frames),
                    Top(frames[t]).pc, hist)

\* handle_athrow
Catch_athrow(t) ==
    /\ CatchAt(t, "athrow")
    /\ CatchLoop(t, "athrow", handle_athrow(frames[t]), Top(frames[t]).pc, hist)

\* handle_invokestatic as far as the callee's frame: the class is found,
\* ensure_initialized returns at once for a class that is Initialized, the
\* arguments are popped and invoke_java_method pushes the frame and enters
\* interpret_method for the callee.  The caller's pc stays where it is: it
\* is moved only after the handler has returned Ok.
Catch_invokestatic(t) ==
    /\ CatchAt(t, "invokestatic")
    /\ LET ins == CalcIns(t)
           target == get_class_id_or_load(ma, ins.a, "asc")
           method_id == get_static_method_id_rec(target.ma, target.id, <<ins.b, "()V">>)
           args == prepare_method_args(frames[t],
                                       args_count(get_method(target.ma, method_id)))
           pf == push_frame(args.frames, JavaFrame_new(method_id, args.args))
           entered == /\ target.ok
                      /\ is_initialized_or_initializing(get_class(target.ma, target.id))
                      /\ method_id # 0
                      /\ pf.ok
       IN /\ frames' = [frames EXCEPT ![t] = IF entered THEN pf.frames ELSE @]
          /\ result' = [result EXCEPT ![t] = IF entered THEN "none" ELSE "fatal"]
          /\ ma' = target.ma
          /\ calls' = calls + 1
          /\ hist' = [hist EXCEPT !.invoked_at = Append(@, Top(frames[t]).pc)]
          /\ ev' = [NoEv EXCEPT !.type = "catch", !.name = "invokestatic",
                                !.cls = IF entered THEN "entered" ELSE "fatal",
                                !.pc = Top(frames[t]).pc, !.id = method_id]
          /\ UNCHANGED <<classpath, heap, ctl>>

\* The callee's interpret_method has returned Err(JavaExceptionThrown): the
\* error passes through invoke_java_method and handle_invokestatic by ? and
\* reaches the Err arm of the caller's loop.
Catch_propagate(t) ==
    /\ ctl[t].sig.kind = "thrown"
    /\ Len(frames[t]) > 0
    /\ CatchLoop(t, "invokestatic",
                 CatchResult("thrown", "", ctl[t].sig.ref, frames[t]),
                 Top(hist.invoked_at),
                 [hist EXCEPT !.invoked_at = Pop(@)])

NextCatch ==
    \/ Catch_iconst(1)
    \/ Catch_idiv(1)
    \/ Catch_athrow(1)
    \/ Catch_invokestatic(1)
    \/ Catch_propagate(1)

SpecCatch == InitCatch /\ [][NextCatch]_vars

\* A class is the catch type or has it among its superclasses.
RECURSIVE Assignable(_, _)
Assignable(name, catch_type) ==
    \/ name = catch_type
    \/ /\ name \in DOMAIN classpath
       /\ classpath[name].super # ""
       /\ Assignable(classpath[name].super, catch_type)

\* the entries of a table that cover a pc and catch a class, by position
Catching(table, pc, name) ==
    {i \in DOMAIN table :
        /\ table[i].start_pc <= pc /\ pc < table[i].end_pc
        /\ (table[i].catch_type = "" \/ Assignable(name, table[i].catch_type))}

\* An exception reached the handler search of a frame.
Raised == ev.type = "catch" /\ ev.cls \in {"caught", "unwind"}

\* C29 (handler selection): the search takes the pc of the instruction that
\* raised, or of the invoke instruction when the exception comes out of a
\* callee, and enters the first entry in table order with
\* start_pc <= pc < end_pc whose catch type is 0 or a class the exception's
\* class is assignable to; with no such entry the frame is left.
C29_FirstHandler ==
    Raised =>
       LET table == get_method(ma, ev.id).etable
           name == get_class(ma, Heap_get_class_id(heap, ev.ref)).name
           catching == Catching(table, ev.inp[1], name)
       IN /\ ev.pc = ev.inp[1]
          /\ IF catching = {} THEN ev.cls = "unwind"
             ELSE /\ ev.cls = "caught"
                  /\ \E i \in catching :
                        /\ \A j \in catching : i <= j
                        /\ ev.n = table[i].handler_pc
                        /\ Top(ev.stack) = Ref(ev.ref)

\* An exception out of the callee met a table whose first entry covers the
\* instruction after the invoke but not the invoke, and was caught by the
\* second entry, whose handler is another one.
C29_Witness ==
    /\ Raised /\ ev.name = "invokestatic" /\ ev.cls = "caught"
    /\ LET table == get_method(ma, ev.id).etable
       IN /\ Len(table) = 2
          /\ table[1] = CatchEntries[3]
          /\ ev.n = table[2].handler_pc
          /\ table[2].handler_pc # table[1].handler_pc

\* ---------------------------------------------------------------------
\* ensure_initialized and the interfaces of an instance class
\* ---------------------------------------------------------------------
\* Par implements IfaceA and IfaceB, which both declare <clinit>; Kid
\* extends Par and implements Iface, which declares none.  IfaceA's
\* <clinit> either returns or creates a Kid.  The host calls Main.tPar and
\* Main.tKid, which create a Par and a Kid.
NewAndReturn(name) ==
    <<Ins("new", name, "", 0), Ins("pop", "", "", 0), Ins("return", "", "", 0)>>

IfaceAFile(v) ==
    ClassFileOf("interface", "Object", TRUE, <<>>, <<>>,
        <<Stat(clinit_sym, "()V", IF v = "newKid" THEN NewAndReturn("Kid") ELSE Ret,
               <<>>)>>)

IfaceBFile ==
    ClassFileOf("interface", "Object", TRUE, <<>>, <<>>,
        <<Stat(clinit_sym, "()V", Ret, <<>>)>>)

ParFile ==
    ClassFileOf("instance", "Object", FALSE, <<"IfaceA", "IfaceB">>, <<>>,
        <<Virt(init_sym, "()V")>>)

KidFile ==
    ClassFileOf("instance", "Par", FALSE, <<"Iface">>, <<>>,
        <<Stat(clinit_sym, "()V", Ret, <<>>), Virt(init_sym, "()V"),
          Virt("im", "()V")>>)

EnsureMainFile ==
    ClassFileOf("instance", "Object", FALSE, <<>>, <<>>,
        <<Stat("tPar", "()V", NewAndReturn("Par"), <<>>),
          Stat("tKid", "()V", NewAndReturn("Kid"), <<>>),
          Stat("tImpl", "()V", NewAndReturn("Impl"), <<>>)>>)

EnsureClassPath(v) ==
    [n \in DOMAIN ClassPathOf("plain", "override") \cup {"IfaceA", "IfaceB", "Par", "Kid"} |->
        CASE n = "IfaceA" -> IfaceAFile(v)
          [] n = "IfaceB" -> IfaceBFile
          [] n = "Par" -> ParFile
          [] n = "Kid" -> KidFile
          [] n = "Main" -> EnsureMainFile
          [] OTHER -> ClassPathOf("plain", "override")[n]]

EnsureEntries == {<<"tPar", "()V", 0>>, <<"tKid", "()V", 0>>, <<"tImpl", "()V", 0>>}

InitEnsure ==
    /\ \E v \in {"plain", "newKid"} : classpath = EnsureClassPath(v)
    /\ ma = preload_basic_classes(MethodArea_new(classpath))
    /\ heap = Heap_new
    /\ frames = [t \in Threads |-> <<>>]
    /\ ctl = [t \in Threads |-> [acts |-> <<>>, sig |-> NoSig]]
    /\ result = [t \in Threads |-> "none"]
    /\ calls = 0
    /\ ev = NoEv
    /\ hist = [first |-> EmptyMap, failed_since |-> {},
               clinit_count |-> EmptyMap, transitions |-> EmptyMap, allocs |-> <<>>]

NextEnsure ==
    \/ \E entry \in EnsureEntries : StartCall(1, entry)
    \/ Finish(1)
    \/ Ensure_check(1)
    \/ \E ord \in Orders : Ensure_set(1, ord)
    \/ \E ord \in Orders : Ensure_resume(1, ord)
    \/ InvokeStatic_resume(1)
    \/ Do_pop(1)
    \/ Do_return(1)
    \/ \E ord \in Orders : Do_new(1, ord)
    \/ \E ord \in Orders : Interp_resume(1, ord)

SpecEnsure == InitEnsure /\ [][NextEnsure]_vars

\* ensure_initialized has just stored Initializing for an interface, called
\* from the walk over the interfaces of an instance class: the caller is
\* the activation below the top one.
WalkCaller == ctl[1].acts[Len(ctl[1].acts) - 1]

InterfaceInitializedByWalk ==
    /\ ev.type = "set_initializing"
    /\ get_class(ma, ev.cls).kind = "interface"
    /\ Len(ctl[1].acts) >= 2
    /\ WalkCaller.kind = "ensure"
    /\ get_class(ma, WalkCaller.cls).kind = "instance"

\* the interfaces a class file names
DirectlyImplemented(name) ==
    {classpath[name].interfaces[i] : i \in DOMAIN classpath[name].interfaces}

\* the interfaces named by the class file of a class or of a superclass
RECURSIVE Implemented(_)
Implemented(name) ==
    DirectlyImplemented(name)
       \cup (IF classpath[name].super = "" THEN {} ELSE Implemented(classpath[name].super))

DeclaresClinit(name) ==
    \E i \in DOMAIN classpath[name].methods : classpath[name].methods[i].name = clinit_sym

\* C30 (interfaces of an instance class): ensure_initialized on an instance
\* class C has its superclass Initializing or Initialized before it turns to
\* the interfaces, and the interfaces it initializes are directly
\* implemented by C and declare <clinit>: an interface without <clinit>, or
\* one that C does not name itself, is not initialized by the call on C.
C30_DirectInterfaces ==
    InterfaceInitializedByWalk =>
       LET C == get_class(ma, WalkCaller.cls)
       IN /\ C.super # 0 => is_initialized_or_initializing(get_class(ma, C.super))
          /\ DeclaresClinit(ev.name)
          /\ ev.name \in DirectlyImplemented(C.name)

\* IfaceB is initialized by the call on Kid, which does not name it.
C30_Witness ==
    /\ InterfaceInitializedByWalk
    /\ ev.name = "IfaceB"
    /\ get_class(ma, WalkCaller.cls).name = "Kid"

\* The same with the interfaces of the superclasses counted in.
EnsureWalksAllInterfaces ==
    InterfaceInitializedByWalk =>
       LET C == get_class(ma, WalkCaller.cls)
       IN /\ C.super # 0 => is_initialized_or_initializing(get_class(ma, C.super))
          /\ DeclaresClinit(ev.name)
          /\ ev.name \in Implemented(C.name)

\* An interface without <clinit> is left in the state it was in.
InterfaceWithoutClinitUntouched ==
    \A id \in DOMAIN ma.classes :
       get_class(ma, id).kind = "interface" /\ ~DeclaresClinit(get_class(ma, id).name)
          => ~is_initialized_or_initializing(get_class(ma, id))

\* When the call on an instance class stores Initialized, the superclass
\* and the interfaces the class names that declare <clinit> are Initializing
\* or Initialized.
DirectInterfacesDone ==
    ev.type = "set_initialized" /\ get_class(ma, ev.cls).kind = "instance" =>
       /\ get_class(ma, ev.cls).super # 0 =>
             is_initialized_or_initializing(get_class(ma, get_class(ma, ev.cls).super))
       /\ \A n \in DirectlyImplemented(ev.name) :
             DeclaresClinit(n) =>
                is_initialized_or_initializing(get_class(ma, ma.class_name_to_index[n]))

(***************************************************************************)
(* The interfaces set of a linked class                                    *)
(***************************************************************************)
\* The interfaces a class implements by the class files: the interfaces its
\* class file names, the set of its superclass, and the interfaces those
\* extend, to any depth.
TransitivelyImplemented(m, c) ==
    LET C == m.classes[c]
        inherited == IF C.super = 0 THEN {} ELSE m.classes[C.super].interfaces
        RECURSIVE closure(_)
        closure(S) ==
            LET next == S \cup UNION {m.classes[i].direct_interfaces : i \in S}
            IN IF next = S THEN S ELSE closure(next)
    IN closure(C.direct_interfaces \cup inherited)

\* C31 (interfaces set): after an instance class is linked its interfaces set
\* holds every interface it transitively implements: each interface it
\* declares, every interface of its superclass's set and every
\* superinterface, to any depth, of those.
C31_InterfacesTransitive ==
    \A c \in 1..Len(ma.classes) :
       IsLinkedInstance(ma, c) =>
          TransitivelyImplemented(ma, c) \subseteq ma.classes[c].interfaces

\* A linked instance class that declares an interface which extends another.
C31_Witness ==
    \E c \in 1..Len(ma.classes) :
       /\ IsLinkedInstance(ma, c)
       /\ \E i \in ma.classes[c].direct_interfaces :
             ma.classes[i].direct_interfaces # {}

(***************************************************************************)
(* Initialization that ends with an error                                  *)
(***************************************************************************)
\* The classes whose ensure_initialized call is in progress on thread t:
\* the call has stored Initializing and has not returned.
BeingInitialized(t) ==
    {ctl[t].acts[i].cls : i \in {j \in 1..Len(ctl[t].acts) :
                                   /\ ctl[t].acts[j].kind = "ensure"
                                   /\ ctl[t].acts[j].phase # "check"}}

\* C32 (no class left Initializing): on the only running thread, once
\* ensure_initialized returned, with Ok or with an error, no class is in
\* state Initializing unless its initialization is still in progress on the
\* frame stack; so a later ensure_initialized of a class never returns Ok at
\* the check of the state for a class whose initialization was abandoned.
C32_NoneLeftInitializing ==
    /\ \A c \in 1..Len(ma.classes) :
          ma.classes[c].state = Initializing => c \in BeingInitialized(1)
    /\ (ev.type = "ensure_skip" /\ ev.seen = Initializing) =>
          ev.cls \in BeingInitialized(1)

\* ensure_initialized returned an error of the class's <clinit> to its
\* caller: the class ran its <clinit>, no call on it is in progress and the
\* thread carries the error.
C32_Witness ==
    \E c \in 1..Len(ma.classes) :
       /\ Count(hist.clinit_count, ma.classes[c].name) > 0
       /\ c \notin BeingInitialized(1)
       /\ ~is_initialized_only(ma.classes[c])
       /\ ctl[1].sig.kind \in {"thrown", "jexc"}

\* A later ensure_initialized found the abandoned class Initializing and
\* returned Ok.
AbandonedClassSkipped ==
    /\ ev.type = "ensure_skip" /\ ev.seen = Initializing
    /\ ev.cls \notin BeingInitialized(1)

(***************************************************************************)
(* The method-area lock and the heap lock                                  *)
(*                                                                         *)
(* vm.heap is an RwLock<Heap> and the method area sits behind an RwLock    *)
(* too: a write guard excludes every other guard, read guards share.  A    *)
(* guard made inside a statement lives to the end of that statement.  In   *)
(* this section ctl[t] is the position of thread t inside one handler and  *)
(* the guards it holds.                                                    *)
(***************************************************************************)
LockIdle == [op |-> "idle", pc |-> "", held |-> {}, cls |-> 0]

FieldOps == {"new", "getfield", "putfield"}
MirrorOps == {"ldc", "getClass", "getSuperclass"}

\* RwLock::read / RwLock::write return when no other thread holds a guard
\* that excludes the one asked for.
CanRead(t, lock) ==
    \A u \in Threads \ {t} : <<lock, "write">> \notin ctl[u].held

CanWrite(t, lock) ==
    \A u \in Threads \ {t} :
        <<lock, "write">> \notin ctl[u].held /\ <<lock, "read">> \notin ctl[u].held

\* MethodArea::get_mirror_ref_or_create, called on a write guard of the
\* method area with the heap's lock as an argument.
get_mirror_ref_or_create(m, h, class_id) ==
    LET class_class_id == m.class_name_to_index["Class"]
        class_class == get_class(m, class_class_id)
        a == alloc_instance(h, class_class.instance_size, class_class_id)
        primitive_fk == <<"primitive", "Z">>
        marked == IF get_class(m, class_id).kind # "primitive" THEN [ok |-> TRUE, heap |-> a.heap]
                  ELSE IF primitive_fk \notin DOMAIN class_class.instance_fields_offset_map
                  THEN [ok |-> FALSE, heap |-> a.heap]
                  ELSE write_field(a.heap, a.ref,
                                   get_instance_field(class_class, primitive_fk).offset,
                                   Integer(1), "Boolean")
    IN IF get_class(m, class_id).mirror_ref # 0
       THEN [ok |-> TRUE, ma |-> m, heap |-> h, ref |-> get_class(m, class_id).mirror_ref]
       ELSE IF ~a.ok THEN [ok |-> FALSE, ma |-> m, heap |-> h, ref |-> 0]
       ELSE IF ~marked.ok THEN [ok |-> FALSE, ma |-> m, heap |-> marked.heap, ref |-> 0]
       ELSE [ok |-> TRUE,
             ma |-> [m EXCEPT !.mirror_to_class_index = MapPut(@, a.ref, class_id),
                              !.classes[class_id].mirror_ref = a.ref],
             heap |-> marked.heap, ref |-> a.ref]

LockFieldKey == <<"f1", "B">>

\* Base and Sub are loaded and initialized, a Base object and a Sub object
\* are on the heap, and each thread is inside a method with an empty operand
\* stack.
InitLock ==
    /\ classpath = ClassPathOf("plain", "override")
    /\ \E m \in {load_all(preload_basic_classes(MethodArea_new(classpath)),
                          <<"Base", "Sub">>, 1)} :
       \E b \in {class_id_of(m, "Base")} : \E s \in {class_id_of(m, "Sub")} :
       \E o1 \in {alloc_instance(Heap_new, get_class(m, b).instance_size, b)} :
       \E o2 \in {alloc_instance(o1.heap, get_class(m, s).instance_size, s)} :
          /\ ma = set_initialized(set_initialized(m, b), s)
          /\ heap = o2.heap
          /\ frames = [t \in Threads |->
                         <<JavaFrame_new(
                              get_static_method_id_rec(m, b, <<"s1", "()V">>), <<>>)>>]
    /\ ctl = [t \in Threads |-> LockIdle]
    /\ result = [t \in Threads |-> "none"]
    /\ calls = 0
    /\ ev = NoEv
    /\ hist = [first |-> EmptyMap, failed_since |-> {},
               clinit_count |-> EmptyMap, transitions |-> EmptyMap, allocs |-> <<>>]

LockEnd(t, fr, m, h) ==
    /\ ctl' = [ctl EXCEPT ![t] = LockIdle]
    /\ frames' = [frames EXCEPT ![t] = fr]
    /\ ma' = m
    /\ heap' = h
    /\ ev' = [NoEv EXCEPT !.type = "lock_done", !.name = ctl[t].op, !.thread = t]
    /\ UNCHANGED <<classpath, result, calls, hist>>

LockMove(t, pc, held, cls) ==
    /\ ctl' = [ctl EXCEPT ![t].pc = pc, ![t].held = held, ![t].cls = cls]
    /\ ev' = [NoEv EXCEPT !.type = "lock_step", !.name = ctl[t].op, !.thread = t]
    /\ UNCHANGED <<classpath, ma, heap, frames, result, calls, hist>>

\* Thread t reaches an instruction or a native call; its operands are on
\* the operand stack.
Lock_start(t, op, name, object) ==
    /\ calls < MaxCalls
    /\ ctl[t].op = "idle"
    /\ op \in MirrorOps \ {"ldc"} => object \in DOMAIN heap.objs
    /\ op = "getSuperclass" => object \in DOMAIN ma.mirror_to_class_index
    /\ op \in {"getfield", "putfield"} =>
          /\ object \in DOMAIN heap.objs
          /\ is_subclass_of(ma, Heap_get_class_id(heap, object), class_id_of(ma, name)) = "true"
    /\ calls' = calls + 1
    /\ ctl' = [ctl EXCEPT ![t] = [LockIdle EXCEPT !.op = op, !.pc = "resolve",
                                                  !.cls = class_id_of(ma, name)]]
    /\ frames' = [frames EXCEPT ![t] =
                    CASE op \in {"getfield", "getClass", "getSuperclass"} ->
                            push_operand(@, Ref(object))
                      [] op = "putfield" ->
                            push_operand(push_operand(@, Ref(object)), Integer(7))
                      [] OTHER -> @]
    /\ ev' = [NoEv EXCEPT !.type = "lock_start", !.name = op, !.thread = t]
    /\ UNCHANGED <<classpath, ma, heap, result, hist>>

\* The statements before the nested guards, each with one guard that is
\* dropped at the end of the statement: the constant-pool read and
\* get_class_id_or_load of the handlers (and ensure_initialized of new, which
\* finds the class Initialized), heap_read().get_class_id of getClass,
\* method_area_read().get_class_id_by_mirror and get_super_id of
\* getSuperclass.
Lock_resolve(t) ==
    /\ ctl[t].pc = "resolve"
    /\ IF ctl[t].op = "getClass"
       THEN /\ CanRead(t, "heap")
            /\ LockMove(t, "outer", {},
                        Heap_get_class_id(heap, top_operand(frames[t]).v))
       ELSE IF ctl[t].op = "getSuperclass"
       THEN /\ CanRead(t, "ma")
            /\ LET target == get_class(ma, ma.mirror_to_class_index[
                                              top_operand(frames[t]).v])
               IN IF target.kind \in {"interface", "primitive"} \/ target.super = 0
                  THEN LockEnd(t, push_operand(pop_operand(frames[t]), Null), ma, heap)
                  ELSE LockMove(t, "outer", {}, target.super)
       ELSE /\ CanWrite(t, "ma")
            /\ LockMove(t, "outer", {}, ctl[t].cls)

\* handle_new: vm.heap_write() is the receiver of alloc_instance and is
\* taken before the arguments are evaluated.
New_heap_write(t) ==
    /\ ctl[t].op = "new" /\ ctl[t].pc = "outer"
    /\ CanWrite(t, "heap")
    /\ LockMove(t, "inner", {<<"heap", "write">>}, ctl[t].cls)

\* handle_new: vm.method_area_read()...get_instance_size() as the argument,
\* then alloc_instance and the push of the reference.
New_alloc(t) ==
    /\ ctl[t].op = "new" /\ ctl[t].pc = "inner"
    /\ CanRead(t, "ma")
    /\ \E a \in {alloc_instance(heap, get_class(ma, ctl[t].cls).instance_size,
                                ctl[t].cls)} :
          LockEnd(t, IF a.ok THEN push_operand(frames[t], Ref(a.ref)) ELSE frames[t],
                  ma, a.heap)

\* handle_getfield: vm.heap_read() is the receiver of read_field.
Getfield_heap_read(t) ==
    /\ ctl[t].op = "getfield" /\ ctl[t].pc = "outer"
    /\ CanRead(t, "heap")
    /\ LockMove(t, "inner", {<<"heap", "read">>}, ctl[t].cls)

\* handle_getfield: vm.method_area_read().get_field_descriptor(..) as the
\* argument, then read_field and the push.
Getfield_read(t) ==
    /\ ctl[t].op = "getfield" /\ ctl[t].pc = "inner"
    /\ CanRead(t, "ma")
    /\ \E r \in {handle_getfield(frames[t], heap, ma, ctl[t].cls, LockFieldKey)} :
          LockEnd(t, r.frames, ma, r.heap)

\* handle_putfield: vm.heap_write() is the receiver of write_field.
Putfield_heap_write(t) ==
    /\ ctl[t].op = "putfield" /\ ctl[t].pc = "outer"
    /\ CanWrite(t, "heap")
    /\ LockMove(t, "inner", {<<"heap", "write">>}, ctl[t].cls)

\* handle_putfield: vm.method_area_read().get_field_descriptor(..) as the
\* argument, then write_field.
Putfield_write(t) ==
    /\ ctl[t].op = "putfield" /\ ctl[t].pc = "inner"
    /\ CanRead(t, "ma")
    /\ \E r \in {handle_putfield(frames[t], heap, ma, ctl[t].cls, LockFieldKey)} :
          LockEnd(t, r.frames, ma, r.heap)

\* vm.method_area_write().get_mirror_ref_or_create(class_id, &vm.heap): the
\* write guard of the method area, and the return of a mirror that exists.
Mirror_ma_write(t) ==
    /\ ctl[t].op \in MirrorOps /\ ctl[t].pc = "outer"
    /\ CanWrite(t, "ma")
    /\ LET fr == IF ctl[t].op = "ldc" THEN frames[t] ELSE pop_operand(frames[t])
           mirror_ref == get_class(ma, ctl[t].cls).mirror_ref
       IN IF mirror_ref # 0
          THEN LockEnd(t, push_operand(fr, Ref(mirror_ref)), ma, heap)
          ELSE LockMove(t, "inner", {<<"ma", "write">>}, ctl[t].cls)

\* get_mirror_ref_or_create: heap.write().unwrap().alloc_instance(..) under
\* the method area's write guard, then the registration of the mirror.
Mirror_alloc(t) ==
    /\ ctl[t].op \in MirrorOps /\ ctl[t].pc = "inner"
    /\ CanWrite(t, "heap")
    /\ LET fr == IF ctl[t].op = "ldc" THEN frames[t] ELSE pop_operand(frames[t])
       IN \E r \in {get_mirror_ref_or_create(ma, heap, ctl[t].cls)} :
             LockEnd(t, IF r.ok THEN push_operand(fr, Ref(r.ref)) ELSE fr, r.ma, r.heap)

LockStep(t) ==
    \/ Lock_resolve(t)
    \/ New_heap_write(t)
    \/ New_alloc(t)
    \/ Getfield_heap_read(t)
    \/ Getfield_read(t)
    \/ Putfield_heap_write(t)
    \/ Putfield_write(t)
    \/ Mirror_ma_write(t)
    \/ Mirror_alloc(t)

LockNames == {"Base", "Sub"}

NextLock ==
    \E t \in Threads :
       \/ \E op \in FieldOps \cup MirrorOps, name \in LockNames,
             object \in DOMAIN heap.objs : Lock_start(t, op, name, object)
       \/ LockStep(t)

SpecLock == InitLock /\ [][NextLock]_vars

\* Every thread that can take a step of its handler eventually takes one:
\* the operating system schedules every runnable thread.
SpecLockFair == SpecLock /\ \A t \in Threads : WF_vars(LockStep(t))

\* C33 (no deadlock on the two locks): whenever a thread is inside new,
\* getfield or putfield, or inside an operation that creates a class mirror
\* (ldc of a class constant, Object.getClass, Class.getSuperclass), the
\* operation eventually completes, whatever the other thread does.
C33_OperationsComplete ==
    \A t \in Threads : (ctl[t].op # "idle") ~> (ctl[t].op = "idle")

\* One thread holds the heap's guard inside new, getfield or putfield while
\* the other holds the method area's write guard inside
\* get_mirror_ref_or_create.
C33_Witness ==
    \E t \in Threads, u \in Threads :
       /\ ctl[t].op \in FieldOps /\ ctl[t].held # {}
       /\ ctl[u].op \in MirrorOps /\ <<"ma", "write">> \in ctl[u].held

\* The two threads wait for each other's guard.
LockCycle ==
    \E t \in Threads, u \in Threads :
       /\ ctl[t].op \in FieldOps /\ ctl[t].pc = "inner" /\ ~CanRead(t, "ma")
       /\ ctl[u].op \in MirrorOps /\ ctl[u].pc = "inner" /\ ~CanWrite(u, "heap")

(***************************************************************************)
(* Failed loads                                                            *)
(***************************************************************************)
\* The names the index maps to a class id.
NamesOf(m, c) == {n \in DOMAIN m.class_name_to_index : m.class_name_to_index[n] = c}

\* C34 (a failed load is atomic): a get_class_id_or_load that fails leaves
\* the classes vector as it was, so after any sequence of loads every class
\* id of the classes vector is the value of exactly one entry of the name
\* index, and a failed load consumes no class id.
C34_FailedLoadAtomic ==
    /\ \A c \in 1..Len(ma.classes) : Cardinality(NamesOf(ma, c)) = 1
    /\ (ev.type = "load" /\ ~ev.ok) => ev.n = 0

\* A load has failed.
C34_Witness == ev.type = "load" /\ ~ev.ok

\* A failed load that left its own class record behind: the vector grew and
\* the last record has no name-index entry.
FailedLoadLeftRecord ==
    /\ ev.type = "load" /\ ~ev.ok /\ ev.n > 0
    /\ NamesOf(ma, Len(ma.classes)) = {}

\* A load that fails before anything is pushed changes nothing.
FailedLoadBeforePush ==
    /\ ev.type = "load" /\ ~ev.ok /\ ev.n = 0

(***************************************************************************)
(* Private methods and the vtable                                          *)
(***************************************************************************)
\* class Owner { private void pm() {} void vm() {} static void caller() {} }
\* class Heir extends Owner { void pm() {} void vm() {} }
OwnerFile ==
    ClassFileOf("instance", "Object", FALSE, <<>>, <<>>,
        <<Virt(init_sym, "()V"), Priv("pm", "()V"), Virt("vm", "()V"),
          Stat("caller", "()V", Ret, <<>>)>>)

HeirFile ==
    ClassFileOf("instance", "Owner", FALSE, <<>>, <<>>,
        <<Virt(init_sym, "()V"), Virt("pm", "()V"), Virt("vm", "()V")>>)

PrivateClassPath ==
    [n \in DOMAIN ClassPathOf("plain", "override") \cup {"Owner", "Heir"} |->
        CASE n = "Owner" -> OwnerFile
          [] n = "Heir" -> HeirFile
          [] OTHER -> ClassPathOf("plain", "override")[n]]

\* An Owner object and a Heir object are allocated, and thread 1 is inside
\* Owner.caller with some operand stack of references to them, null and ints.
InitPrivate ==
    /\ classpath = PrivateClassPath
    /\ \E m \in {load_all(preload_basic_classes(MethodArea_new(classpath)),
                          <<"Heir">>, 1)} :
       \E o \in {class_id_of(m, "Owner")} : \E h \in {class_id_of(m, "Heir")} :
       \E o1 \in {alloc_instance(Heap_new, get_class(m, o).instance_size, o)} :
       \E o2 \in {alloc_instance(o1.heap, get_class(m, h).instance_size, h)} :
       \E cells \in {<<Ref(o1.ref), Ref(o2.ref), Null, Integer(1)>>} :
       \E n \in 1..MaxOperands : \E pick \in [1..n -> DOMAIN cells] :
          /\ ma = m
          /\ heap = o2.heap
          /\ frames = [t \in Threads |->
                         IF t = 1
                         THEN <<[JavaFrame_new(
                                    get_static_method_id_rec(m, o, <<"caller", "()V">>),
                                    <<>>)
                                 EXCEPT !.operands = [i \in 1..n |-> cells[pick[i]]]]>>
                         ELSE <<>>]
    /\ ctl = [t \in Threads |-> [acts |-> <<>>, sig |-> NoSig]]
    /\ result = [t \in Threads |-> "none"]
    /\ calls = 0
    /\ ev = NoEv
    /\ hist = [first |-> EmptyMap, failed_since |-> {},
               clinit_count |-> EmptyMap, transitions |-> EmptyMap, allocs |-> <<>>]

\* invokespecial of a method of class Owner.
Invoke_special_owner(t, method_key) ==
    /\ calls < MaxCalls
    /\ Handle(t, "invokespecial", method_key[1], params_len(method_key[2]),
              handle_invokespecial(frames[t], heap, ma, class_id_of(ma, "Owner"),
                                   method_key))

OwnerKeys == {<<"pm", "()V">>, <<"vm", "()V">>}

NextPrivate ==
    \/ \E k \in OwnerKeys : Invoke_virtual(1, k)
    \/ \E k \in OwnerKeys : Invoke_special_owner(1, k)

SpecPrivate == InitPrivate /\ [][NextPrivate]_vars

\* The method of class S with key k, if S declares it private.
IsPrivateOf(m, method_id, class_id, name) ==
    /\ get_method(m, method_id).class_id = class_id
    /\ get_method(m, method_id).name = name
    /\ get_method(m, method_id).private

\* The receiver of the invocation just handled.
InvokedOn ==
    IF ev.type = "invokevirtual" THEN ev.ref
    ELSE IF ev.stack # <<>> /\ ev.stack[1].tag = "Ref" THEN ev.stack[1].v ELSE 0

\* An invokevirtual or invokespecial of Owner's private pm went through on a
\* receiver of class Heir, which declares a method with the same key.
PrivateInvokedOnHeir ==
    /\ ev.type \in {"invokevirtual", "invokespecial"} /\ ev.ok /\ ev.name = "pm"
    /\ InvokedOn \in DOMAIN heap.objs
    /\ Heap_get_class_id(heap, InvokedOn) = class_id_of(ma, "Heir")

\* C35 (private methods are not overridden): an invokevirtual or
\* invokespecial of the private method S.m on a receiver whose class C
\* extends S and declares a method with the same key executes S's method.
C35_PrivateNotOverridden ==
    PrivateInvokedOnHeir =>
        IsPrivateOf(ma, ev.id, class_id_of(ma, "Owner"), "pm")

C35_Witness == PrivateInvokedOnHeir

\* invokespecial of Owner.pm does run Owner's method.
SpecialRunsOwners ==
    (PrivateInvokedOnHeir /\ ev.type = "invokespecial") =>
        IsPrivateOf(ma, ev.id, class_id_of(ma, "Owner"), "pm")

SpecialOnHeir == PrivateInvokedOnHeir /\ ev.type = "invokespecial"

(***************************************************************************)
(* The itable against the vtable                                           *)
(***************************************************************************)
\* interface IfaceD { default void d1() {} abstract void dm(); }
\* class Mid implements Iface { void im() {} }
\* class Leaf extends Mid { void im() {} void d1() {} }
\* abstract class Abs implements Iface { }
\* class Conc extends Abs implements IfaceD { void im() {} void dm() {} }
\* class Both implements Iface, IfaceD { void im() {} void dm() {} }
IfaceDFile ==
    ClassFileOf("interface", "Object", TRUE, <<>>, <<>>,
        <<Virt("d1", "()V"), Abst("dm", "()V")>>)

MidFile ==
    ClassFileOf("instance", "Object", FALSE, <<"Iface">>, <<>>,
        <<Virt(init_sym, "()V"), Virt("im", "()V")>>)

LeafFile ==
    ClassFileOf("instance", "Mid", FALSE, <<>>, <<>>,
        <<Virt(init_sym, "()V"), Virt("im", "()V"), Virt("d1", "()V")>>)

AbsFile ==
    ClassFileOf("instance", "Object", TRUE, <<"Iface">>, <<>>,
        <<Virt(init_sym, "()V")>>)

ConcFile ==
    ClassFileOf("instance", "Abs", FALSE, <<"IfaceD">>, <<>>,
        <<Virt(init_sym, "()V"), Virt("im", "()V"), Virt("dm", "()V")>>)

BothFile ==
    ClassFileOf("instance", "Object", FALSE, <<"Iface", "IfaceD">>, <<>>,
        <<Virt(init_sym, "()V"), Virt("im", "()V"), Virt("dm", "()V")>>)

ItableClassPath ==
    [n \in DOMAIN ClassPathOf("plain", "override")
              \cup {"IfaceD", "Mid", "Leaf", "Abs", "Conc", "Both"} |->
        CASE n = "IfaceD" -> IfaceDFile
          [] n = "Mid" -> MidFile
          [] n = "Leaf" -> LeafFile
          [] n = "Abs" -> AbsFile
          [] n = "Conc" -> ConcFile
          [] n = "Both" -> BothFile
          [] OTHER -> ClassPathOf("plain", "override")[n]]

InitItable ==
    /\ classpath = ItableClassPath
    /\ ma = preload_basic_classes(MethodArea_new(classpath))
    /\ heap = Heap_new
    /\ frames = [t \in Threads |-> <<>>]
    /\ ctl = [t \in Threads |-> [acts |-> <<>>, sig |-> NoSig]]
    /\ result = [t \in Threads |-> "none"]
    /\ calls = 0
    /\ ev = NoEv
    /\ hist = [first |-> EmptyMap, failed_since |-> {},
               clinit_count |-> EmptyMap, transitions |-> EmptyMap, allocs |-> <<>>]

ItableNames == {"Mid", "Leaf", "Abs", "Conc", "Both", "Impl", "Sub"}

NextItable == \E name_sym \in ItableNames, ord \in Orders : Load(name_sym, ord)

SpecItable == InitItable /\ [][NextItable]_vars

\* C36 (itable agrees with vtable): for every linked instance class and every
\* key of its itable, the key is in its vtable_index and the itable entry is
\* the vtable entry of that slot, entries inherited from the superclass's
\* itable included; so the lookup of invokeinterface and the lookup of
\* invokevirtual give the same method for the same key and receiver class.
C36_ItableAgreesWithVtable ==
    \A c \in 1..Len(ma.classes) :
       LET C == ma.classes[c]
       IN (C.kind = "instance" /\ C.state >= Linked) =>
             \A k \in DOMAIN C.itable :
                /\ k \in DOMAIN C.vtable_index
                /\ C.itable[k] = C.vtable[C.vtable_index[k] + 1]
                /\ get_interface_method_id(C, k) = get_vtable_method_id(C, k)

\* A linked class that overrides a method its superclass's itable holds, and
\* whose itable entry for the key differs from the superclass's.
C36_Witness ==
    \E c \in 1..Len(ma.classes) :
       /\ IsLinkedInstance(ma, c)
       /\ LET C == ma.classes[c]
              S == ma.classes[C.super]
          IN \E k \in DOMAIN S.itable :
                /\ k \in DeclaredKeys(ma, c)
                /\ k \in DOMAIN C.itable
                /\ C.itable[k] # S.itable[k]

(***************************************************************************)
(* Totality of the assignability checks                                    *)
(***************************************************************************)
\* MethodArea::is_assignable_from
is_assignable_from(m, this_class, cls) == is_subclass_of(m, cls, this_class)

\* C37 (assignability checks are total): for every pair of classes of the
\* method area, arrays and primitive pseudo-classes included,
\* is_assignable_from, is_subclass_of and instance_of return true or false
\* and never abort.
C37_AssignabilityTotal ==
    \A a \in 1..Len(ma.classes) : \A b \in 1..Len(ma.classes) :
       /\ is_subclass_of(ma, a, b) \in {"true", "false"}
       /\ is_assignable_from(ma, b, a) \in {"true", "false"}
       /\ instance_of(ma, a, ma.classes[b].name) \in {"true", "false"}

\* An array class and an interface are both loaded.
C37_Witness ==
    \E a \in 1..Len(ma.classes) : \E b \in 1..Len(ma.classes) :
       /\ is_array(ma.classes[a])
       /\ ma.classes[b].kind = "interface"

\* Among instance classes, interfaces and arrays against arrays or Object the
\* checks do return a boolean.
AssignabilityTotalElsewhere ==
    \A a \in 1..Len(ma.classes) : \A b \in 1..Len(ma.classes) :
       (\/ ma.classes[a].kind \in {"instance", "interface"}
        \/ (is_array(ma.classes[a])
              /\ (is_array(ma.classes[b]) \/ b = ma.java_lang_object_id))) =>
          is_subclass_of(ma, a, b) \in {"true", "false"}

(***************************************************************************)
(* System.arraycopy between arrays of different element widths             *)
(***************************************************************************)
\* An int[2] with contents, a byte[4] and an Object[1], one after the other.
InitMixed ==
    /\ classpath = ClassPathOf("plain", "override")
    /\ \E m \in {load_all(preload_basic_classes(MethodArea_new(classpath)),
                          <<"[I", "[LObject;">>, 1)} :
       \E a \in {alloc_primitive_array(Heap_new, class_id_of(m, "[I"), "Int", 2)} :
       \E b \in {alloc_primitive_array(a.heap, class_id_of(m, "[B"), "Byte", 4)} :
       \E c \in {alloc_object_array(b.heap, class_id_of(m, "[LObject;"), 1)} :
       \E values \in {<<11, 22>>, <<-1, I32Min>>} :
          /\ ma = m
          /\ heap = fill_array(c.heap, a.ref, values, 1)
    /\ frames = [t \in Threads |-> <<>>]
    /\ ctl = [t \in Threads |-> [acts |-> <<>>, sig |-> NoSig]]
    /\ result = [t \in Threads |-> "none"]
    /\ calls = 0
    /\ ev = NoEv
    /\ hist = [first |-> EmptyMap, failed_since |-> {},
               clinit_count |-> EmptyMap, transitions |-> EmptyMap, allocs |-> <<>>]

MixedLengths == {0, 1, 2}

NextMixed ==
    \E src \in DOMAIN heap.objs, dest \in DOMAIN heap.objs,
       src_pos \in SrcPositions, dest_pos \in DestPositions, length \in MixedLengths :
          System_arraycopy(src, src_pos, dest, dest_pos, length, "panic")

SpecMixed == InitMixed /\ [][NextMixed]_vars

\* The addresses of elements pos .. pos + length - 1 of an array, by the
\* array's own element width.
ElementBytes(h, heap_ref, pos, length) ==
    LET width == AllocationType_byte_size(get_allocation_type(h, heap_ref).ty)
        first == heap_ref + ObjectHeaderSize + 8 + pos * width
    IN first..(first + length * width - 1)

\* C38 (copy frame): a successful copy_primitive_slice, and System.arraycopy
\* built on it, changes only bytes of the destination's elements dest_pos ..
\* dest_pos + length - 1 and no other byte of the heap, whatever the element
\* types of the two arrays.
C38_CopyTouchesOnlyDestination ==
    [][(ev'.type = "arraycopy" /\ ev'.ok)
          => \A a \in DOMAIN heap.mem :
                heap'.mem[a] # heap.mem[a] =>
                   a \in ElementBytes(heap, ev'.inp[3], ev'.inp[4], ev'.inp[5])]_vars

\* A copy between arrays of different element widths passed the checks and
\* returned Ok.
C38_Witness ==
    /\ ev.type = "arraycopy" /\ ev.ok /\ ev.native
    /\ get_allocation_type(heap, ev.inp[1]).ty # get_allocation_type(heap, ev.inp[3]).ty

\* Between arrays of the same element type the copy stays inside the
\* destination range.
SameTypeCopyStaysInside ==
    [][(/\ ev'.type = "arraycopy" /\ ev'.ok
        /\ get_allocation_type(heap, ev'.inp[1]).ty =
              get_allocation_type(heap, ev'.inp[3]).ty)
          => \A a \in DOMAIN heap.mem :
                heap'.mem[a] # heap.mem[a] =>
                   a \in ElementBytes(heap, ev'.inp[3], ev'.inp[4], ev'.inp[5])]_vars

(***************************************************************************)
(* The size field of object headers                                        *)
(***************************************************************************)
\* C39 (header size): for every object on the heap, made by alloc_instance,
\* by an array allocation, by a string allocation or by clone_object, the
\* size field of its header is 16 plus its data size; a clone has the class
\* id, the is_array flag, the size and the data bytes of its source.
C39_HeaderSize ==
    \A i \in DOMAIN hist.allocs :
       LET o == hist.allocs[i]
       IN heap.objs[o.ref].size = ObjectHeaderSize + o.size

\* clone_object returned a clone.
C39_Witness ==
    /\ ev.type = "allocate" /\ ev.name = "clone_object" /\ ev.ok
    /\ ev.ref \in DOMAIN heap.objs

\* Objects that are not clones have the size field the claim states.
SizeOfClone(h, ref) == h.objs[ref].size

HeaderSizeWithoutClones ==
    \A i \in DOMAIN hist.allocs :
       LET o == hist.allocs[i]
       IN heap.objs[o.ref].size # 0 => heap.objs[o.ref].size = ObjectHeaderSize + o.size

\* clone_object was called on an object whose header size is below the
\* header size (a clone) and did not return a reference.
CloneOfCloneFails ==
    /\ ev.type = "allocate" /\ ev.name = "clone_object" /\ ~ev.ok
    /\ \E i \in DOMAIN hist.allocs : SizeOfClone(heap, hist.allocs[i].ref) = 0

(***************************************************************************)
(* Descriptor ids                                                          *)
(***************************************************************************)
\* Well-formed descriptors, which the parse on a miss accepts.
DescriptorSymbols ==
    [method |-> {"()V", "(I)V", "(J)V"}, field |-> {"I", "J", "Z"}]

\* One call of get_or_new_method_descriptor_id or
\* get_or_new_field_descriptor_id on the method area.  hist.first holds the
\* id the first call for a symbol returned; ev.n is the growth of the vector.
Descriptor_id(kind, descriptor) ==
    /\ calls < MaxCalls
    /\ \E r \in {IF kind = "method" THEN get_or_new_method_descriptor_id(ma, descriptor)
                 ELSE get_or_new_field_descriptor_id(ma, descriptor)} :
          /\ ma' = r.ma
          /\ ev' = [NoEv EXCEPT !.type = "descriptor", !.name = descriptor,
                                !.id = r.id,
                                !.again = <<kind, descriptor>> \in DOMAIN hist.first,
                                !.seen = IF <<kind, descriptor>> \in DOMAIN hist.first
                                         THEN hist.first[<<kind, descriptor>>] ELSE 0,
                                !.n = (Len(r.ma.method_descriptors)
                                         + Len(r.ma.field_descriptors))
                                      - (Len(ma.method_descriptors)
                                         + Len(ma.field_descriptors))]
          /\ hist' = [hist EXCEPT
                        !.first = IF <<kind, descriptor>> \in DOMAIN @ THEN @
                                  ELSE MapPut(@, <<kind, descriptor>>, r.id)]
    /\ calls' = calls + 1
    /\ UNCHANGED <<classpath, heap, frames, ctl, result>>

NextDescriptor ==
    \/ \E kind \in {"method", "field"} :
          \E descriptor \in DescriptorSymbols[kind] : Descriptor_id(kind, descriptor)
    \/ \E k \in VirtualKeys : Invoke_virtual(1, k)

SpecDescriptor == InitInvoke /\ [][NextDescriptor]_vars

\* C40 (descriptor ids are idempotent): a second call of
\* get_or_new_method_descriptor_id or get_or_new_field_descriptor_id with the
\* same symbol returns the id of the first call and does not grow the
\* descriptor vector, and an invokevirtual of a method that exists (whose
\* descriptor got its id when the class was loaded) does not grow it either.
C40_DescriptorIdsIdempotent ==
    /\ (ev.type = "descriptor" /\ ev.again) => (ev.id = ev.seen /\ ev.n = 0)
    /\ (ev.type = "invokevirtual" /\ ev.ok) =>
          \A i, j \in 1..Len(ma.method_descriptors) :
             ma.method_descriptors[i] = ma.method_descriptors[j] => i = j

\* The same descriptor symbol was asked for a second time.
C40_Witness == ev.type = "descriptor" /\ ev.again

\* An invokevirtual went through and the vector of method descriptors holds
\* its descriptor more than once.
InvokeGrewDescriptors ==
    /\ ev.type = "invokevirtual" /\ ev.ok
    /\ \E i, j \in 1..Len(ma.method_descriptors) :
          i # j /\ ma.method_descriptors[i] = ma.method_descriptors[j]

====
